---------------------------- MODULE Spec2Model ----------------------------
(***************************************************************************)
(* Pathfinder-Visualizer: the weighted graph (src/graph.js), the four      *)
(* generator-based search engines with their binary heap                   *)
(* (src/algorithms.js) and the multi-leg trip controller (src/app.js).     *)
(*                                                                         *)
(* A generator is modelled by its suspended frame: the field pc names the  *)
(* yield it is parked at, and GenNext is one call of generator.next().     *)
(* A priority is the pair (g, h2) standing for the number g + sqrt(h2),    *)
(* compared exactly, so that the A* order on irrational heuristic values   *)
(* is the order the floating-point code computes.                          *)
(***************************************************************************)
EXTENDS Integers, Sequences, FiniteSets, Bags, TLC

\* ------------------------------------------------------------------ bounds
\* Number of candidate addEdge calls (a prefix of each world's list) a graph
\* is drawn from.
NumCand == 7
\* Number of generator.next() calls made after the generator has returned.
MaxExtraCalls == 2
MaxStops == 2
MaxRunCalls == 2
MaxEdits == 1
\* Number of addNode and addEdge calls made on a graph being built.
MaxCalls == 5
\* Number of items a MinHeap used on its own holds at most.
MaxHeapSize == 5

\* ------------------------------------------------------- values of the code
\* JavaScript null (the start's parent) and Infinity (unreached distance).
Null == "null"
Infinity == 1000000
\* A node id no graph of the model contains.
UnknownId == "Z"

\* The one element of a set of one.
Only(S) == CHOOSE x \in S : TRUE

Min(a, b) == IF a < b THEN a ELSE b

\* --------------------------------------------------------------- graph.js
\* new Graph(): both maps empty.
EmptyGraph == [nodes |-> << >>, edges |-> << >>]

HasNode(G, id) == id \in DOMAIN G.nodes

\* Graph.addNode: set (overwrite) the node, create its list if absent.
AddNode(G, id, x, y) ==
    [nodes |-> [k \in (DOMAIN G.nodes) \cup {id} |->
                    IF k = id THEN <<x, y>> ELSE G.nodes[k]],
     edges |-> [k \in (DOMAIN G.edges) \cup {id} |->
                    IF k \in DOMAIN G.edges THEN G.edges[k] ELSE << >>]]

\* Squared Euclidean distance of two plane points.
Dist2(p, q) == (q[1] - p[1]) * (q[1] - p[1]) + (q[2] - p[2]) * (q[2] - p[2])

\* Math.round(Math.hypot(..)) of a squared distance d2: the integer r with
\* r - 1/2 <= sqrt(d2) < r + 1/2.
RoundSqrt(d2) ==
    IF d2 = 0 THEN 0
    ELSE CHOOSE r \in 1..(d2 + 1) :
            /\ (2 * r - 1) * (2 * r - 1) <= 4 * d2
            /\ 4 * d2 < (2 * r + 1) * (2 * r + 1)

\* The weight argument of addEdge: omitted (null), or a number given in
\* halves, W(3) being 1.5.
NoWeight == << >>
W(halves) == <<halves>>

\* Math.round of the number w2/2 (an explicit weight is given in halves):
\* floor(w2/2 + 1/2).
RoundHalves(w2) == (w2 + 1) \div 2

\* The weight addEdge stores: weight === null gives the Euclidean distance,
\* and either is then rounded.
EdgeWeight(G, fromId, toId, weight) ==
    IF weight = NoWeight THEN RoundSqrt(Dist2(G.nodes[fromId], G.nodes[toId]))
    ELSE RoundHalves(weight[1])

\* The two pushes of addEdge with the second one left out.
AddEdgePushOneWay(G, fromId, toId, w) ==
    [nodes |-> G.nodes,
     edges |-> [G.edges EXCEPT ![fromId] = Append(@, [node |-> toId, weight |-> w])]]

\* Graph.addEdge on present endpoints: push on both lists, fromId's first
\* (a self loop pushes twice on the same list).
AddEdgePush(G, fromId, toId, w) ==
    LET e1 == [G.edges EXCEPT ![fromId] = Append(@, [node |-> toId, weight |-> w])]
        e2 == [e1 EXCEPT ![toId] = Append(@, [node |-> fromId, weight |-> w])]
    IN  [nodes |-> G.nodes, edges |-> e2]

\* An addEdge that looks for toId only after it has pushed on fromId's list.
AddEdgeLateCheck(G, fromId, toId, weight) ==
    IF ~HasNode(G, fromId) THEN [ok |-> FALSE, graph |-> G]
    ELSE IF ~HasNode(G, toId)
    THEN [ok |-> FALSE,
          graph |-> [G EXCEPT !.edges[fromId] =
                                 Append(@, [node |-> toId, weight |-> 0])]]
    ELSE [ok |-> TRUE,
          graph |-> AddEdgePush(G, fromId, toId, EdgeWeight(G, fromId, toId, weight))]

\* Graph.addEdge: throws when an endpoint is absent (ok = FALSE, graph kept).
AddEdge(G, fromId, toId, weight) ==
    IF ~HasNode(G, fromId) \/ ~HasNode(G, toId)
    THEN [ok |-> FALSE, graph |-> G]
    ELSE [ok |-> TRUE,
          graph |-> AddEdgePush(G, fromId, toId, EdgeWeight(G, fromId, toId, weight))]

\* Graph.getNeighbors: the list, or [] for an id without one.
GetNeighbors(G, id) == IF id \in DOMAIN G.edges THEN G.edges[id] ELSE << >>

\* Graph.heuristic as a squared distance; the code's value is its square root.
Heuristic2(G, a, b) == Dist2(G.nodes[a], G.nodes[b])

\* ---------------------------------------------------- algorithms.js: MinHeap
\* Mutant of PrioLess: the comparison of _bubbleUp and _sinkDown turned
\* round (>), which makes the heap a max-heap.
PrioLessFlipped(p, q) ==
    LET c == p.g - q.g
        P == q.h2
        Q == p.h2
    IN  IF c >= 0
        THEN LET d == P - c * c - Q
             IN  d < 0 \/ (c > 0 /\ d * d < 4 * c * c * Q)
        ELSE LET d == Q - P - c * c
             IN  d > 0 /\ 4 * c * c * P < d * d

\* A priority is [g, h2], the number g + sqrt(h2).  PrioLess(p, q) is the
\* code's p < q on those numbers: with c = q.g - p.g it is
\* sqrt(p.h2) < c + sqrt(q.h2), decided by squaring.
PrioLess(p, q) ==
    LET c == q.g - p.g
        P == p.h2
        Q == q.h2
    IN  IF c >= 0
        THEN LET d == P - c * c - Q
             IN  d < 0 \/ (c > 0 /\ d * d < 4 * c * c * Q)
        ELSE LET d == Q - P - c * c
             IN  d > 0 /\ 4 * c * c * P < d * d

Swap(data, i, j) == [data EXCEPT ![i] = data[j], ![j] = data[i]]

\* MinHeap._bubbleUp(i); slot i of the code is data[i + 1] here.
RECURSIVE BubbleUp(_, _)
BubbleUp(data, i) ==
    IF i > 0
    THEN LET parent == (i - 1) \div 2
         IN  IF PrioLess(data[i + 1].priority, data[parent + 1].priority)
             THEN BubbleUp(Swap(data, i + 1, parent + 1), parent)
             ELSE data
    ELSE data

\* MinHeap._sinkDown(i).
RECURSIVE SinkDown(_, _)
SinkDown(data, i) ==
    LET n == Len(data)
        l == 2 * i + 1
        r == 2 * i + 2
        s1 == IF l < n /\ PrioLess(data[l + 1].priority, data[i + 1].priority)
              THEN l ELSE i
        smallest == IF r < n /\ PrioLess(data[r + 1].priority, data[s1 + 1].priority)
                    THEN r ELSE s1
    IN  IF smallest # i
        THEN SinkDown(Swap(data, i + 1, smallest + 1), smallest)
        ELSE data

\* MinHeap.push(item).
HeapPush(data, item) == BubbleUp(Append(data, item), Len(data))

\* Mutant of HeapPop: the last item is put in slot 0 and _sinkDown(0) is not
\* called.
HeapPopNoSink(data) ==
    LET rest == SubSeq(data, 1, Len(data) - 1)
    IN  [top |-> data[1],
         data |-> IF Len(rest) > 0 THEN [rest EXCEPT ![1] = data[Len(data)]] ELSE rest]

\* MinHeap.pop() on a non-empty heap: the top, and the data left.
HeapPop(data) ==
    LET top == data[1]
        last == data[Len(data)]
        rest == SubSeq(data, 1, Len(data) - 1)
    IN  [top |-> top,
         data |-> IF Len(rest) > 0
                  THEN SinkDown([rest EXCEPT ![1] = last], 0)
                  ELSE rest]

\* --------------------------------------------- algorithms.js: shared pieces
\* A JavaScript Set kept as the sequence of its members in insertion order.
SetHas(set, x) == \E i \in 1..Len(set) : set[i] = x
SetAdd(set, x) == IF SetHas(set, x) THEN set ELSE Append(set, x)
Members(seq) == {seq[i] : i \in 1..Len(seq)}

\* A Map: get gives "undefined" for an absent key.
MapHas(map, k) == k \in DOMAIN map
MapSet(map, k, v) == [x \in (DOMAIN map) \cup {k} |-> IF x = k THEN v ELSE map[x]]

\* reconstructPath(parent, endId): unshift current and follow parent until
\* null.  An absent key gives undefined, which is not null: the loop of the
\* code would then never end, shown here as the marker "undefined" in front.
RECURSIVE ReconstructFrom(_, _, _)
ReconstructFrom(parent, current, path) ==
    IF current = Null THEN path
    ELSE IF ~MapHas(parent, current) THEN <<"undefined">> \o path
    ELSE ReconstructFrom(parent, parent[current], <<current>> \o path)

\* Mutant of ReconstructPath: path.push in place of path.unshift, which
\* leaves the path running from the end back to the start.
ReconstructPathPushed(parent, endId) ==
    LET path == ReconstructFrom(parent, endId, << >>)
    IN  [i \in 1..Len(path) |-> path[Len(path) + 1 - i]]

ReconstructPath(parent, endId) == ReconstructFrom(parent, endId, << >>)

\* The objects the generators yield.  keys is the set of properties the
\* object has; a property it lacks holds a filler here.
NoValue ==
    [keys |-> {}, type |-> "undefined", node |-> Null, visited |-> << >>,
     frontier |-> {}, distances |-> << >>, path |-> << >>, totalDistance |-> 0]

VisitFrontier(node, visited, frontier) ==
    [NoValue EXCEPT !.keys = {"type", "node", "visited", "frontier"},
                    !.type = "visit", !.node = node, !.visited = visited,
                    !.frontier = Members(frontier)]

VisitDistances(node, visited, distances) ==
    [NoValue EXCEPT !.keys = {"type", "node", "visited", "distances"},
                    !.type = "visit", !.node = node, !.visited = visited,
                    !.distances = distances]

DonePath(path, visited) ==
    [NoValue EXCEPT !.keys = {"type", "path", "visited"},
                    !.type = "done", !.path = path, !.visited = visited]

\* Mutant of DoneDistance: an empty path is reported with distance 0.
DoneDistanceZeroIfEmpty(path, visited, totalDistance) ==
    [NoValue EXCEPT !.keys = {"type", "path", "visited", "totalDistance"},
                    !.type = "done", !.path = path, !.visited = visited,
                    !.totalDistance = IF path = << >> THEN 0 ELSE totalDistance]

DoneDistance(path, visited, totalDistance) ==
    [NoValue EXCEPT !.keys = {"type", "path", "visited", "totalDistance"},
                    !.type = "done", !.path = path, !.visited = visited,
                    !.totalDistance = totalDistance]

\* What generator.next() gives back: { value, done }, or an exception.
Yield(value) == [done |-> FALSE, threw |-> FALSE, value |-> value]
Returned == [done |-> TRUE, threw |-> FALSE, value |-> NoValue]
Threw == [done |-> TRUE, threw |-> TRUE, value |-> NoValue]

\* The frame of a generator.  pc: "ready" (created, body not entered),
\* "visit" (parked at the yield of a visit object), "found" (parked at the
\* yield of done inside the loop), "exhausted" (parked at the last yield),
\* "returned" (finished, by return or by an exception).
NewGen(algo, startId, endId) ==
    [algo |-> algo, startId |-> startId, endId |-> endId, pc |-> "ready",
     visited |-> << >>, parent |-> << >>, queue |-> << >>, stack |-> << >>,
     heap |-> << >>, dist |-> << >>, gScore |-> << >>, fScore |-> << >>,
     current |-> Null, currentDist |-> 0]

Step(gen, result) == [gen |-> gen, result |-> result]

\* ------------------------------------------------------- algorithms.js: bfs
\* Mutant of BfsLoop: queue.pop() in place of queue.shift().
BfsLoopLifo(G, g) ==
    IF Len(g.queue) > 0
    THEN LET current == g.queue[Len(g.queue)]
             queue == SubSeq(g.queue, 1, Len(g.queue) - 1)
         IN  Step([g EXCEPT !.current = current, !.queue = queue, !.pc = "visit"],
                  Yield(VisitFrontier(current, g.visited, queue)))
    ELSE Step([g EXCEPT !.pc = "exhausted"], Yield(DonePath(<< >>, g.visited)))

\* The while loop from its test to the next yield.
BfsLoop(G, g) ==
    IF Len(g.queue) > 0
    THEN LET current == Head(g.queue)
             queue == Tail(g.queue)
         IN  Step([g EXCEPT !.current = current, !.queue = queue, !.pc = "visit"],
                  Yield(VisitFrontier(current, g.visited, queue)))
    ELSE Step([g EXCEPT !.pc = "exhausted"], Yield(DonePath(<< >>, g.visited)))

\* for (const { node: neighbor } of graph.getNeighbors(current)), from entry i.
RECURSIVE BfsExpand(_, _, _)
BfsExpand(g, neighbors, i) ==
    IF i > Len(neighbors) THEN g
    ELSE LET neighbor == neighbors[i].node
         IN  IF ~SetHas(g.visited, neighbor)
             THEN BfsExpand([g EXCEPT !.visited = SetAdd(@, neighbor),
                                      !.parent = MapSet(@, neighbor, g.current),
                                      !.queue = Append(@, neighbor)],
                            neighbors, i + 1)
             ELSE BfsExpand(g, neighbors, i + 1)

BfsInit(g) ==
    [g EXCEPT !.queue = <<g.startId>>,
              !.visited = <<g.startId>>,
              !.parent = MapSet(<< >>, g.startId, Null)]

\* Mutant of BfsNext: the return after the yield of done is missing, so the
\* loop goes on from the end node.
BfsNextNoReturn(G, g) ==
    CASE g.pc = "ready" -> BfsLoop(G, BfsInit(g))
      [] g.pc = "visit" ->
            IF g.current = g.endId
            THEN Step([g EXCEPT !.pc = "found"],
                      Yield(DonePath(ReconstructPath(g.parent, g.endId), g.visited)))
            ELSE BfsLoop(G, BfsExpand(g, GetNeighbors(G, g.current), 1))
      [] g.pc = "found" -> BfsLoop(G, BfsExpand(g, GetNeighbors(G, g.current), 1))
      [] OTHER -> Step([g EXCEPT !.pc = "returned"], Returned)

\* Mutant of BfsNext: the test current === endId comes after the neighbour
\* loop, so the neighbours of the end node are enqueued before done is yielded.
BfsNextExpandsEnd(G, g) ==
    CASE g.pc = "ready" -> BfsLoop(G, BfsInit(g))
      [] g.pc = "visit" ->
            IF g.current = g.endId
            THEN LET h == BfsExpand(g, GetNeighbors(G, g.current), 1)
                 IN  Step([h EXCEPT !.pc = "found"],
                          Yield(DonePath(ReconstructPath(h.parent, h.endId), h.visited)))
            ELSE BfsLoop(G, BfsExpand(g, GetNeighbors(G, g.current), 1))
      [] OTHER -> Step([g EXCEPT !.pc = "returned"], Returned)

BfsNext(G, g) ==
    CASE g.pc = "ready" -> BfsLoop(G, BfsInit(g))
      [] g.pc = "visit" ->
            IF g.current = g.endId
            THEN Step([g EXCEPT !.pc = "found"],
                      Yield(DonePath(ReconstructPath(g.parent, g.endId), g.visited)))
            ELSE BfsLoop(G, BfsExpand(g, GetNeighbors(G, g.current), 1))
      [] OTHER -> Step([g EXCEPT !.pc = "returned"], Returned)

\* ------------------------------------------------------- algorithms.js: dfs
\* Mutant of DfsLoop: the test visited.has(current) is missing, so a node
\* that was pushed twice is yielded twice.
DfsLoopNoSkip(G, g) ==
    IF Len(g.stack) > 0
    THEN LET current == g.stack[Len(g.stack)]
             stack == SubSeq(g.stack, 1, Len(g.stack) - 1)
             visited == SetAdd(g.visited, current)
         IN  Step([g EXCEPT !.current = current, !.stack = stack,
                            !.visited = visited, !.pc = "visit"],
                  Yield(VisitFrontier(current, visited, stack)))
    ELSE Step([g EXCEPT !.pc = "exhausted"], Yield(DonePath(<< >>, g.visited)))

RECURSIVE DfsLoop(_, _)
DfsLoop(G, g) ==
    IF Len(g.stack) > 0
    THEN LET current == g.stack[Len(g.stack)]
             stack == SubSeq(g.stack, 1, Len(g.stack) - 1)
         IN  IF SetHas(g.visited, current)
             THEN DfsLoop(G, [g EXCEPT !.stack = stack, !.current = current])
             ELSE LET visited == SetAdd(g.visited, current)
                  IN  Step([g EXCEPT !.current = current, !.stack = stack,
                                     !.visited = visited, !.pc = "visit"],
                           Yield(VisitFrontier(current, visited, stack)))
    ELSE Step([g EXCEPT !.pc = "exhausted"], Yield(DonePath(<< >>, g.visited)))

\* Mutant of DfsExpand: the entries 1 .. i of the list are pushed in list
\* order (for (let j = 0; j < neighbors.length; j++)), so the last-listed
\* neighbour ends on top of the stack.
RECURSIVE DfsExpandForward(_, _, _)
DfsExpandForward(g, neighbors, i) ==
    IF i < 1 THEN g
    ELSE \* the entries before i first, then entry i
         Only({IF ~SetHas(h.visited, neighbors[i].node)
               THEN [h EXCEPT !.parent = MapSet(@, neighbors[i].node, h.current),
                              !.stack = Append(@, neighbors[i].node)]
               ELSE h :
               h \in {DfsExpandForward(g, neighbors, i - 1)}})

\* Mutant of DfsExpand: the test !visited.has(neighbor) is missing, so a
\* visited node is pushed again and its parent entry overwritten.
RECURSIVE DfsExpandNoCheck(_, _, _)
DfsExpandNoCheck(g, neighbors, i) ==
    IF i < 1 THEN g
    ELSE DfsExpandNoCheck([g EXCEPT !.parent = MapSet(@, neighbors[i].node, g.current),
                                    !.stack = Append(@, neighbors[i].node)],
                          neighbors, i - 1)

\* for (let i = neighbors.length - 1; i >= 0; i--), from entry i (1-based).
RECURSIVE DfsExpand(_, _, _)
DfsExpand(g, neighbors, i) ==
    IF i < 1 THEN g
    ELSE LET neighbor == neighbors[i].node
         IN  IF ~SetHas(g.visited, neighbor)
             THEN DfsExpand([g EXCEPT !.parent = MapSet(@, neighbor, g.current),
                                      !.stack = Append(@, neighbor)],
                            neighbors, i - 1)
             ELSE DfsExpand(g, neighbors, i - 1)

DfsInit(g) ==
    [g EXCEPT !.stack = <<g.startId>>,
              !.parent = MapSet(<< >>, g.startId, Null)]

DfsNext(G, g) ==
    CASE g.pc = "ready" -> DfsLoop(G, DfsInit(g))
      [] g.pc = "visit" ->
            IF g.current = g.endId
            THEN Step([g EXCEPT !.pc = "found"],
                      Yield(DonePath(ReconstructPath(g.parent, g.endId), g.visited)))
            ELSE LET neighbors == GetNeighbors(G, g.current)
                 IN  DfsLoop(G, DfsExpand(g, neighbors, Len(neighbors)))
      [] OTHER -> Step([g EXCEPT !.pc = "returned"], Returned)

\* -------------------------------------------------- algorithms.js: dijkstra
\* A heap entry { priority, node }; Dijkstra's priority is a plain number.
Num(n) == [g |-> n, h2 |-> 0]
Entry(priority, node) == [priority |-> priority, node |-> node]

\* Mutant of DijkstraLoop: the test visited.has(current) is missing, so a
\* stale heap entry of a visited node is yielded as a visit again.
DijkstraLoopNoSkip(G, g) ==
    IF Len(g.heap) > 0
    THEN LET popped == HeapPop(g.heap)
             current == popped.top.node
             visited == SetAdd(g.visited, current)
         IN  Step([g EXCEPT !.heap = popped.data, !.current = current,
                            !.currentDist = popped.top.priority.g,
                            !.visited = visited, !.pc = "visit"],
                  Yield(VisitDistances(current, visited, g.dist)))
    ELSE Step([g EXCEPT !.pc = "exhausted"],
              Yield(DoneDistance(<< >>, g.visited, Infinity)))

RECURSIVE DijkstraLoop(_, _)
DijkstraLoop(G, g) ==
    IF Len(g.heap) > 0
    THEN LET popped == HeapPop(g.heap)
             current == popped.top.node
             currentDist == popped.top.priority.g
         IN  IF SetHas(g.visited, current)
             THEN DijkstraLoop(G, [g EXCEPT !.heap = popped.data])
             ELSE LET visited == SetAdd(g.visited, current)
                  IN  Step([g EXCEPT !.heap = popped.data, !.current = current,
                                     !.currentDist = currentDist,
                                     !.visited = visited, !.pc = "visit"],
                           Yield(VisitDistances(current, visited, g.dist)))
    ELSE Step([g EXCEPT !.pc = "exhausted"],
              Yield(DoneDistance(<< >>, g.visited, Infinity)))

\* Mutant of DijkstraImproves: the test newDist < dist.get(neighbor) is
\* missing, so every edge to an unvisited neighbour rewrites its distance.
DijkstraImprovesAlways(g, neighbor, newDist) == MapHas(g.dist, neighbor)

\* newDist < dist.get(neighbor); an absent key gives undefined: false.
DijkstraImproves(g, neighbor, newDist) ==
    MapHas(g.dist, neighbor) /\ newDist < g.dist[neighbor]

\* Mutant of DijkstraBase: the relaxation adds the weight to nothing
\* (const newDist = weight).
DijkstraBaseZero(g) == 0

\* The distance the relaxation starts from: the popped priority.
DijkstraBase(g) == g.currentDist

\* for (const { node: neighbor, weight } of graph.getNeighbors(current)).
RECURSIVE DijkstraRelax(_, _, _)
DijkstraRelax(g, neighbors, i) ==
    IF i > Len(neighbors) THEN g
    ELSE LET neighbor == neighbors[i].node
             newDist == DijkstraBase(g) + neighbors[i].weight
         IN  IF SetHas(g.visited, neighbor)
             THEN DijkstraRelax(g, neighbors, i + 1)
             ELSE IF DijkstraImproves(g, neighbor, newDist)
             THEN DijkstraRelax(
                      [g EXCEPT !.dist = MapSet(@, neighbor, newDist),
                                !.parent = MapSet(@, neighbor, g.current),
                                !.heap = HeapPush(@, Entry(Num(newDist), neighbor))],
                      neighbors, i + 1)
             ELSE DijkstraRelax(g, neighbors, i + 1)

DijkstraInit(G, g) ==
    [g EXCEPT !.dist = MapSet([n \in DOMAIN G.nodes |-> Infinity], g.startId, 0),
              !.parent = MapSet(<< >>, g.startId, Null),
              !.heap = HeapPush(<< >>, Entry(Num(0), g.startId))]

DijkstraNext(G, g) ==
    CASE g.pc = "ready" -> DijkstraLoop(G, DijkstraInit(G, g))
      [] g.pc = "visit" ->
            IF g.current = g.endId
            THEN Step([g EXCEPT !.pc = "found"],
                      Yield(DoneDistance(ReconstructPath(g.parent, g.endId),
                                         g.visited, g.dist[g.endId])))
            ELSE DijkstraLoop(G, DijkstraRelax(g, GetNeighbors(G, g.current), 1))
      [] OTHER -> Step([g EXCEPT !.pc = "returned"], Returned)

\* ----------------------------------------------------- algorithms.js: aStar
\* gScore + graph.heuristic(node, endId).
FScoreOf(G, gScore, node, endId) == [g |-> gScore, h2 |-> Heuristic2(G, node, endId)]

RECURSIVE AStarLoop(_, _)
AStarLoop(G, g) ==
    IF Len(g.heap) > 0
    THEN LET popped == HeapPop(g.heap)
             current == popped.top.node
         IN  IF SetHas(g.visited, current)
             THEN AStarLoop(G, [g EXCEPT !.heap = popped.data])
             ELSE LET visited == SetAdd(g.visited, current)
                  IN  Step([g EXCEPT !.heap = popped.data, !.current = current,
                                     !.visited = visited, !.pc = "visit"],
                           Yield(VisitDistances(current, visited, g.gScore)))
    ELSE Step([g EXCEPT !.pc = "exhausted"],
              Yield(DoneDistance(<< >>, g.visited, Infinity)))

\* Mutant of AStarImproves: the test tentativeG < gScore.get(neighbor) is
\* missing, so every edge to an unvisited neighbour rewrites its score.
AStarImprovesAlways(g, neighbor, tentativeG) == MapHas(g.gScore, neighbor)

\* tentativeG < gScore.get(neighbor).
AStarImproves(g, neighbor, tentativeG) ==
    MapHas(g.gScore, neighbor) /\ tentativeG < g.gScore[neighbor]

RECURSIVE AStarRelax(_, _, _, _)
AStarRelax(G, g, neighbors, i) ==
    IF i > Len(neighbors) THEN g
    ELSE LET neighbor == neighbors[i].node
             tentativeG == g.gScore[g.current] + neighbors[i].weight
             f == FScoreOf(G, tentativeG, neighbor, g.endId)
         IN  IF SetHas(g.visited, neighbor)
             THEN AStarRelax(G, g, neighbors, i + 1)
             ELSE IF AStarImproves(g, neighbor, tentativeG)
             THEN AStarRelax(G,
                      [g EXCEPT !.parent = MapSet(@, neighbor, g.current),
                                !.gScore = MapSet(@, neighbor, tentativeG),
                                !.fScore = MapSet(@, neighbor, f),
                                !.heap = HeapPush(@, Entry(f, neighbor))],
                      neighbors, i + 1)
             ELSE AStarRelax(G, g, neighbors, i + 1)

\* Lines 188-193: both maps at Infinity, then gScore of the start at 0.
AStarInit(G, g) ==
    [g EXCEPT !.gScore = MapSet([n \in DOMAIN G.nodes |-> Infinity], g.startId, 0),
              !.fScore = [n \in DOMAIN G.nodes |-> Num(Infinity)]]

\* Lines 194-196; graph.heuristic reads .x of undefined for an unknown id and
\* throws, which ends the generator.
AStarNext(G, g) ==
    CASE g.pc = "ready" ->
            IF ~HasNode(G, g.startId) \/ ~HasNode(G, g.endId)
            THEN Step([AStarInit(G, g) EXCEPT !.pc = "returned"], Threw)
            ELSE LET f == FScoreOf(G, 0, g.startId, g.endId)
                     g1 == AStarInit(G, g)
                 IN  AStarLoop(G, [g1 EXCEPT
                                      !.fScore = MapSet(@, g.startId, f),
                                      !.parent = MapSet(<< >>, g.startId, Null),
                                      !.heap = HeapPush(<< >>, Entry(f, g.startId))])
      [] g.pc = "visit" ->
            IF g.current = g.endId
            THEN Step([g EXCEPT !.pc = "found"],
                      Yield(DoneDistance(ReconstructPath(g.parent, g.endId),
                                         g.visited, g.gScore[g.endId])))
            ELSE AStarLoop(G, AStarRelax(G, g, GetNeighbors(G, g.current), 1))
      [] OTHER -> Step([g EXCEPT !.pc = "returned"], Returned)

\* ------------------------------------------------ algorithms.js: ALGORITHMS
AlgoKeys == {"bfs", "dfs", "dijkstra", "astar"}
Weighted(algo) == algo \in {"dijkstra", "astar"}

\* One call of generator.next() on a generator made by ALGORITHMS[algo].fn.
GenNext(G, g) ==
    CASE g.algo = "bfs" -> BfsNext(G, g)
      [] g.algo = "dfs" -> DfsNext(G, g)
      [] g.algo = "dijkstra" -> DijkstraNext(G, g)
      [] g.algo = "astar" -> AStarNext(G, g)

\* ------------------------------------------------------ the graphs searched
\* Three node layouts, each with a list of addEdge calls (fromId, toId,
\* weight).  World 1 is a diagonal street whose default weights round down;
\* world 2 is the triangle A-B 10, A-C 10, B-C 5 with a fourth node D; world 3
\* has a cheap detour A-C-B of weight 1 + 1 around the straight road A-B, with
\* D on a side road off A.
Worlds == {1, 2, 3}

Layout(world) ==
    IF world = 1
    THEN <<<<"A", 0, 0>>, <<"B", 2, 2>>, <<"C", 3, 3>>, <<"D", 4, 4>>, <<"E", 5, 5>>>>
    ELSE IF world = 2
    THEN <<<<"A", 0, 0>>, <<"B", 10, 0>>, <<"C", 0, 10>>, <<"D", 5, 5>>>>
    ELSE <<<<"A", 0, 0>>, <<"B", 4, 0>>, <<"C", 0, 3>>, <<"D", 3, 0>>>>

Candidates(world) ==
    IF world = 1
    THEN <<<<"A", "B", NoWeight>>, <<"A", "E", NoWeight>>, <<"B", "C", NoWeight>>,
           <<"C", "D", NoWeight>>, <<"D", "E", NoWeight>>, <<"B", "A", W(0)>>,
           <<"C", "C", W(3)>>, <<"B", "D", W(2)>>, <<"E", "A", W(4)>>>>
    ELSE IF world = 2
    THEN <<<<"A", "B", W(20)>>, <<"A", "C", W(20)>>, <<"B", "C", W(10)>>,
           <<"C", "B", NoWeight>>, <<"C", "D", NoWeight>>, <<"D", "D", W(0)>>,
           <<"A", "D", W(1)>>, <<"B", "D", NoWeight>>, <<"A", "B", W(0)>>>>
    ELSE <<<<"A", "C", W(2)>>, <<"C", "B", W(2)>>, <<"A", "D", NoWeight>>,
           <<"A", "B", NoWeight>>>>

NodeIds(world) == {Layout(world)[i][1] : i \in 1..Len(Layout(world))}

RECURSIVE AddNodes(_, _, _)
AddNodes(G, layout, i) ==
    IF i > Len(layout) THEN G
    ELSE AddNodes(AddNode(G, layout[i][1], layout[i][2], layout[i][3]), layout, i + 1)

\* The calls of cands numbered in mask, made in list order.
RECURSIVE AddEdges(_, _, _, _)
AddEdges(G, cands, mask, i) ==
    IF i > Len(cands) THEN G
    ELSE IF i \in mask
         THEN AddEdges(AddEdge(G, cands[i][1], cands[i][2], cands[i][3]).graph,
                       cands, mask, i + 1)
         ELSE AddEdges(G, cands, mask, i + 1)

BuildGraph(world, mask) ==
    AddEdges(AddNodes(EmptyGraph, Layout(world), 1), Candidates(world), mask, 1)

Masks(world) == SUBSET (1..Min(NumCand, Len(Candidates(world))))

\* ------------------------------------------------------------------ app.js
\* LEG_COLORS.length, and the '-' the statistics panel shows for no value.
NumLegColors == 8
Dash == -1

\* The stops a select can hold: a node of the graph, or '' (nothing chosen).
NoNode == ""

\* this.waypoints.map(w => w.nodeId).filter(Boolean).
RECURSIVE FilterChosen(_)
FilterChosen(waypoints) ==
    IF waypoints = << >> THEN << >>
    ELSE IF Head(waypoints) = NoNode THEN FilterChosen(Tail(waypoints))
    ELSE <<Head(waypoints)>> \o FilterChosen(Tail(waypoints))

\* A loop that compares every two stops of the route, not only neighbours.
FirstDuplicateAnywhere(route, i) ==
    IF \E a, b \in 1..Len(route) : a < b /\ route[a] = route[b] THEN 1 ELSE 0

\* The loop of _run over route: the first i with route[i] === route[i + 1],
\* or 0 when there is none.
RECURSIVE FirstDuplicate(_, _)
FirstDuplicate(route, i) ==
    IF i >= Len(route) THEN 0
    ELSE IF route[i] = route[i + 1] THEN i
    ELSE FirstDuplicate(route, i + 1)

\* The checks without the loop over the route.
ValidateNoLoop(startId, stopIds) ==
    IF startId = NoNode THEN "noStart"
    ELSE IF Len(stopIds) = 0 THEN "noStops"
    ELSE "ok"

\* What the three checks at the head of _run answer for a start and a list
\* of chosen stops: "noStart", "noStops", "duplicate" or "ok".
Validate(startId, stopIds) ==
    IF startId = NoNode THEN "noStart"
    ELSE IF Len(stopIds) = 0 THEN "noStops"
    ELSE IF FirstDuplicate(<<startId>> \o stopIds, 1) # 0 THEN "duplicate"
    ELSE "ok"

\* Array.prototype.find: the least index that matches.
MinOfSet(S) == CHOOSE x \in S : \A y \in S : x <= y

\* _calcPathDist: for each step of the path the weight of the first entry
\* for the next node in the list of the current one, if there is one.
RECURSIVE CalcPathDist(_, _, _)
CalcPathDist(G, path, i) ==
    IF i >= Len(path) THEN 0
    ELSE LET neighbors == GetNeighbors(G, path[i])
             hits == {j \in 1..Len(neighbors) : neighbors[j].node = path[i + 1]}
         IN  (IF hits = {} THEN 0 ELSE neighbors[MinOfSet(hits)].weight)
               + CalcPathDist(G, path, i + 1)

\* legResult.totalDistance || this._calcPathDist(legResult.path).
LegDist(G, legResult) ==
    IF "totalDistance" \in legResult.keys /\ legResult.totalDistance # 0
    THEN legResult.totalDistance
    ELSE CalcPathDist(G, legResult.path, 1)

\* The total after a leg when = is written for +=.
AddLegDistLast(totalDistance, legDist) == legDist

\* totalDistance += legDist.
AddLegDist(totalDistance, legDist) == totalDistance + legDist

\* The status line, by the message written to it.
Status(kind, from, to, n, distance) ==
    [kind |-> kind, from |-> from, to |-> to, n |-> n, distance |-> distance]

\* _updateStats(visited, legs, distance, timeMs); a distance of 0 shows '-'.
UpdateStats(visited, legs, distance) ==
    [visited |-> visited, legs |-> legs,
     distance |-> IF distance # 0 THEN distance ELSE Dash, active |-> TRUE]

\* _clearStats.
ClearedStats == [visited |-> Dash, legs |-> Dash, distance |-> Dash, active |-> FALSE]

\* renderer.resetVisualization(): the visited highlight, the current node
\* and the path segments are dropped.
RendererReset(r) == [r EXCEPT !.visited = {}, !.current = Null, !.segments = << >>]

\* _resetVisualization without its loop of clearTimeout: the timers stay.
ResetVisualizationKeepsTimers(S) ==
    [S EXCEPT !.renderer = RendererReset(@),
              !.app.stats.active = FALSE]

\* _resetVisualization on the state S = [app, renderer, trips, enginesMade]:
\* every timer of animationTimers is cleared.
ResetVisualization(S) ==
    [S EXCEPT !.app.animationTimers = {},
              !.renderer = RendererReset(@),
              !.app.stats.active = FALSE]

\* The locals of one call of _run that got past the checks.  legResult is
\* what the promise of the current leg resolved with, NoValue before it has
\* and for resolve(null).  awaiting is the
\* promise the call is suspended on: "leg", "pause", or "none" once it has
\* returned (outcome "complete", "noPath") or died on an exception.
NewTrip(route, algo) ==
    [route |-> route, algo |-> algo, leg |-> 0,
     generator |-> NewGen(algo, route[1], route[2]),
     totalVisited |-> 0, totalDistance |-> 0, allSegments |-> << >>,
     allVisited |-> {}, legResult |-> NoValue,
     awaiting |-> "none", outcome |-> "none"]

StepTimer(k) == [trip |-> k, kind |-> "step"]
PauseTimer(k) == [trip |-> k, kind |-> "pause"]

\* Lines 389-396, reached after the last leg and by every break.
Finish(S, k) ==
    LET t == S.trips[k]
        legs == Len(t.route) - 1
    IN  [S EXCEPT !.app.stats = UpdateStats(t.totalVisited, legs, t.totalDistance),
                  !.app.status = Status("complete", NoNode, NoNode, legs, t.totalDistance),
                  !.app.isRunning = FALSE,
                  !.app.runDisabled = FALSE,
                  !.trips[k].awaiting = "none",
                  !.trips[k].outcome = "complete"]

\* The branch of an empty path without the two lines that give the flag and
\* the button back.
NoPathAbortKeepsFlag(S, k) ==
    LET t == S.trips[k]
    IN  [S EXCEPT !.renderer.current = Null,
                  !.app.status = Status("noPath", t.route[t.leg + 1],
                                        t.route[t.leg + 2], t.leg + 1, 0),
                  !.trips[k].awaiting = "none",
                  !.trips[k].outcome = "noPath"]

\* The branch of an empty path (lines 370-378): the message, the flag, the
\* button, return.
NoPathAbort(S, k) ==
    LET t == S.trips[k]
    IN  [S EXCEPT !.renderer.current = Null,
                  !.app.status = Status("noPath", t.route[t.leg + 1],
                                        t.route[t.leg + 2], t.leg + 1, 0),
                  !.app.isRunning = FALSE,
                  !.app.runDisabled = FALSE,
                  !.trips[k].awaiting = "none",
                  !.trips[k].outcome = "noPath"]

\* Lines 359-387, run when the promise of the leg resolves: hasResult is
\* FALSE for resolve(null).
AfterLeg(G, S, k, hasResult, legResult) ==
    LET t == S.trips[k]
    IN  IF ~hasResult \/ ~S.app.isRunning
        THEN Finish([S EXCEPT !.trips[k].legResult = legResult], k)
        ELSE IF Len(legResult.path) > 0
        THEN LET total == AddLegDist(t.totalDistance, LegDist(G, legResult))
                 segments == Append(t.allSegments,
                                    [path |-> legResult.path,
                                     color |-> t.leg % NumLegColors])
                 S1 == [S EXCEPT !.renderer.current = Null,
                                 !.renderer.segments = segments,
                                 !.trips[k].legResult = legResult,
                                 !.trips[k].totalDistance = total,
                                 !.trips[k].allSegments = segments,
                                 !.app.stats = UpdateStats(t.totalVisited, t.leg + 1, total)]
             IN  IF t.leg < Len(t.route) - 2
                 THEN [S1 EXCEPT !.trips[k].awaiting = "pause",
                                 !.app.animationTimers = @ \cup {PauseTimer(k)}]
                 ELSE Finish([S1 EXCEPT !.trips[k].leg = t.leg + 1], k)
        ELSE NoPathAbort([S EXCEPT !.trips[k].legResult = legResult], k)

\* Mutant of VisitCounted: the count is the number of different nodes seen
\* (totalVisited = allVisited.size).
VisitCountedDistinct(totalVisited, allVisited) == Cardinality(allVisited)

\* totalVisited++ (line 345).
VisitCounted(totalVisited, allVisited) == totalVisited + 1

\* step of trip k (lines 343-354) once generator.next() has answered next.
StepWith(G, S, k, next) ==
    LET t == S.trips[k]
        value == next.result.value
        S1 == [S EXCEPT !.trips[k].generator = next.gen]
    IN  IF next.result.threw
        THEN [S1 EXCEPT !.trips[k].awaiting = "none",
                        !.trips[k].outcome = "threw"]
        ELSE IF next.result.done THEN AfterLeg(G, S1, k, FALSE, NoValue)
        ELSE IF value.type = "visit"
        THEN LET allVisited == t.allVisited \cup Members(value.visited)
                 totalVisited == VisitCounted(t.totalVisited, allVisited)
             IN  [S1 EXCEPT
                     !.trips[k].totalVisited = totalVisited,
                     !.trips[k].allVisited = allVisited,
                     !.trips[k].awaiting = "leg",
                     !.renderer.visited = allVisited,
                     !.renderer.current = value.node,
                     !.app.stats = UpdateStats(totalVisited, t.leg + 1,
                                               t.totalDistance),
                     !.app.animationTimers = @ \cup {StepTimer(k)}]
        ELSE AfterLeg(G, S1, k, TRUE, value)

\* The closure step of trip k (lines 338-355); generator.next() is called
\* once, and next names what it answered.
StepFn(G, S, k) ==
    IF ~S.app.isRunning THEN AfterLeg(G, S, k, FALSE, NoValue)
    ELSE Only({StepWith(G, S, k, next) : next \in {GenNext(G, S.trips[k].generator)}})

\* Mutant of LegHead: the generator of the leg is made from the stop the leg
\* goes to, to the stop it leaves (algo.fn(this.graph, toId, fromId)).
LegHeadReversed(G, S, k) ==
    LET t == S.trips[k]
    IN  IF ~S.app.isRunning THEN Finish(S, k)
        ELSE StepFn(G,
                    [S EXCEPT !.trips[k].generator =
                                  NewGen(t.algo, t.route[t.leg + 2], t.route[t.leg + 1]),
                              !.trips[k].legResult = NoValue,
                              !.enginesMade = @ + 1,
                              !.app.status = Status("leg", t.route[t.leg + 1],
                                                    t.route[t.leg + 2], t.leg + 1, 0)],
                    k)

\* The head of the for loop for the leg trips[k].leg (lines 324-357): the
\* generator of the leg is made and step is called once.
LegHead(G, S, k) ==
    LET t == S.trips[k]
    IN  IF ~S.app.isRunning THEN Finish(S, k)
        ELSE StepFn(G,
                    [S EXCEPT !.trips[k].generator =
                                  NewGen(t.algo, t.route[t.leg + 1], t.route[t.leg + 2]),
                              !.trips[k].legResult = NoValue,
                              !.enginesMade = @ + 1,
                              !.app.status = Status("leg", t.route[t.leg + 1],
                                                    t.route[t.leg + 2], t.leg + 1, 0)],
                    k)

\* _run (lines 280-357) up to its first await.
Run(G, S) ==
    LET startId == S.app.startSelect
        stopIds == FilterChosen(S.app.waypoints)
        route == <<startId>> \o stopIds
        verdict == Validate(startId, stopIds)
    IN  IF verdict = "noStart"
        THEN [S EXCEPT !.app.status = Status("warnStart", NoNode, NoNode, 0, 0)]
        ELSE IF verdict = "noStops"
        THEN [S EXCEPT !.app.status = Status("warnStops", NoNode, NoNode, 0, 0)]
        ELSE IF verdict = "duplicate"
        THEN [S EXCEPT !.app.status =
                 Status("warnDuplicate", route[FirstDuplicate(route, 1)], NoNode, 0, 0)]
        ELSE LET S1 == ResetVisualization(S)
                 k == Len(S.trips) + 1
                 S2 == [S1 EXCEPT !.app.isRunning = TRUE,
                                  !.app.runDisabled = TRUE,
                                  !.trips = Append(@, NewTrip(route, S.app.algorithmSelect))]
             IN  LegHead(G, S2, k)

\* _reset without its call of _resetVisualization and of _clearStats.
ResetFlagOnly(S) ==
    [S EXCEPT !.app.isRunning = FALSE,
              !.app.runDisabled = FALSE,
              !.app.status = Status("build", NoNode, NoNode, 0, 0)]

\* _reset (lines 416-423).
Reset(S) ==
    LET S1 == ResetVisualization([S EXCEPT !.app.isRunning = FALSE])
    IN  [S1 EXCEPT !.app.runDisabled = FALSE,
                   !.app.stats = ClearedStats,
                   !.app.status = Status("build", NoNode, NoNode, 0, 0)]

\* The widgets' handlers that edit the trip (lines 77-97, 130-134, 188-201,
\* 216-219, 226-255).  A waypoint is kept as its nodeId: its id only names
\* the entry its delete button removes, which i names here.
SyncRendererWaypoints(S) == [S EXCEPT !.renderer.waypoints = FilterChosen(S.app.waypoints)]

StartChanged(S, v) ==
    ResetVisualization([S EXCEPT !.app.startSelect = v, !.renderer.start = v])

AddWaypointTo(S) ==
    SyncRendererWaypoints([S EXCEPT !.app.waypoints = Append(@, NoNode)])

WaypointChanged(S, i, v) ==
    ResetVisualization(SyncRendererWaypoints([S EXCEPT !.app.waypoints[i] = v]))

RemoveAt(seq, i) == SubSeq(seq, 1, i - 1) \o SubSeq(seq, i + 1, Len(seq))
InsertAt(seq, i, x) == SubSeq(seq, 1, i - 1) \o <<x>> \o SubSeq(seq, i, Len(seq))

RemoveWaypointAt(S, i) ==
    ResetVisualization(SyncRendererWaypoints([S EXCEPT !.app.waypoints = RemoveAt(@, i)]))

\* _swapWaypoints(i, j), positions counted from 1 here.
SwapWaypointsAt(S, i, j) ==
    IF i < 1 \/ j < 1 \/ i > Len(S.app.waypoints) \/ j > Len(S.app.waypoints) THEN S
    ELSE ResetVisualization(SyncRendererWaypoints(
             [S EXCEPT !.app.waypoints = Swap(@, i, j)]))

\* The drop handler: splice the dragged entry out and in again at toIndex.
DropWaypointAt(S, fromIndex, toIndex) ==
    IF fromIndex = toIndex THEN S
    ELSE ResetVisualization(SyncRendererWaypoints(
             [S EXCEPT !.app.waypoints =
                 InsertAt(RemoveAt(@, fromIndex), toIndex, S.app.waypoints[fromIndex])]))

\* renderer.onNodeClick(nodeId).
NodeClicked(S, nodeId) ==
    IF S.app.isRunning THEN S
    ELSE IF S.app.startSelect = NoNode
    THEN [S EXCEPT !.app.startSelect = nodeId,
                   !.renderer.start = nodeId,
                   !.app.status = Status("startSet", NoNode, NoNode, 0, 0)]
    ELSE IF nodeId = S.app.startSelect THEN S
    ELSE LET empty == {i \in 1..Len(S.app.waypoints) : S.app.waypoints[i] = NoNode}
             waypoints == IF empty # {}
                          THEN [S.app.waypoints EXCEPT ![MinOfSet(empty)] = nodeId]
                          ELSE Append(S.app.waypoints, nodeId)
             S1 == ResetVisualization(SyncRendererWaypoints(
                       [S EXCEPT !.app.waypoints = waypoints]))
         IN  [S1 EXCEPT !.app.status =
                 Status("added", nodeId, NoNode, Len(FilterChosen(waypoints)), 0)]

\* The PathfinderApp as its constructor and _init leave it, with the start,
\* one waypoint and the algorithm as the selects show them.
NewApp(startId, waypoints, algo) ==
    [startSelect |-> startId, waypoints |-> waypoints, algorithmSelect |-> algo,
     isRunning |-> FALSE, runDisabled |-> FALSE, animationTimers |-> {},
     status |-> Status("build", NoNode, NoNode, 0, 0), stats |-> ClearedStats]

NewRenderer(startId, waypoints) ==
    [start |-> startId, waypoints |-> FilterChosen(waypoints), visited |-> {},
     current |-> Null, segments |-> << >>]

\* ----------------------------------------------------------------- state
VARIABLES
    graph,       \* the Graph every search reads
    gen,         \* the generator being advanced
    events,      \* the objects it has yielded, in order
    threw,       \* whether a next() call of it threw
    extraCalls,  \* next() calls made after it returned
    app,         \* the PathfinderApp: selects, waypoints, flags, timers, texts
    renderer,    \* what the canvas shows
    trips,       \* the calls of _run that got past the checks, oldest first
    enginesMade, \* how many generators _run has constructed
    runCalls,    \* how many times _run was called
    edits,       \* how many times a widget edited the trip
    lastCall,    \* the last call made on the graph while it is built
    heap,        \* the data array of a MinHeap used on its own
    present,     \* the bag of the items pushed on it and not yet popped
    lastPop      \* what its last call returned, if that call was pop()

engineVars == <<gen, events, threw, extraCalls>>
heapVars == <<heap, present, lastPop>>
tripVars == <<app, renderer, trips, enginesMade, runCalls, edits>>
vars == <<graph, gen, events, threw, extraCalls,
          app, renderer, trips, enginesMade, runCalls, edits, lastCall,
          heap, present, lastPop>>

\* No call on the graph yet; n counts the calls.
NoCall == [n |-> 0, op |-> "none", fromId |-> NoNode, toId |-> NoNode,
           weight |-> NoWeight, threw |-> FALSE]

\* What pop() returns on an empty heap (undefined), and the value lastPop has
\* while the last call was not a pop.
Undefined == [priority |-> [g |-> 0, h2 |-> 0], node |-> "undefined"]
NoPop == [priority |-> [g |-> 0, h2 |-> 0], node |-> "none"]

\* No MinHeap is used on its own.
NoHeap ==
    /\ heap = << >>
    /\ present = EmptyBag
    /\ lastPop = NoPop

\* The page as it is while one generator is driven on its own.
NoTrip ==
    /\ app = NewApp(NoNode, << >>, "bfs")
    /\ renderer = NewRenderer(NoNode, << >>)
    /\ trips = << >>
    /\ enginesMade = 0
    /\ runCalls = 0
    /\ edits = 0

\* ---------------------------------------------------- driving one generator
\* A generator made for a graph of the given world and masks, not yet
\* advanced.
EngineInitOn(world, masks) ==
    \E mask \in masks :
      \E algo \in AlgoKeys :
        \E startId \in NodeIds(world) \cup {UnknownId} :
          \E endId \in NodeIds(world) \cup {UnknownId} :
            /\ graph = BuildGraph(world, mask)
            /\ gen = NewGen(algo, startId, endId)
            /\ events = << >>
            /\ threw = FALSE
            /\ extraCalls = 0
            /\ NoTrip
            /\ lastCall = NoCall
            /\ NoHeap

EngineInit == \E world \in Worlds : EngineInitOn(world, Masks(world))

\* generator.next() on a generator that has not returned.
Advance ==
    /\ gen.pc # "returned"
    /\ \E step \in {GenNext(graph, gen)} :
           /\ gen' = step.gen
           /\ events' = IF step.result.done THEN events
                        ELSE Append(events, step.result.value)
           /\ threw' = step.result.threw
    /\ UNCHANGED <<heapVars, graph, extraCalls, tripVars, lastCall>>

\* generator.next() on a generator that has returned.
AdvanceReturned ==
    /\ gen.pc = "returned"
    /\ extraCalls < MaxExtraCalls
    /\ \E step \in {GenNext(graph, gen)} :
           /\ gen' = step.gen
           /\ events' = IF step.result.done THEN events
                        ELSE Append(events, step.result.value)
    /\ extraCalls' = extraCalls + 1
    /\ UNCHANGED <<heapVars, graph, threw, tripVars, lastCall>>

EngineNext == Advance \/ AdvanceReturned

SpecEngine == EngineInit /\ [][EngineNext]_vars

\* The same with a driver that goes on calling next() while the generator
\* has not returned, as step of _run does from timer to timer.
\* It is run on two graphs of world 3: the cycle A-C-B with D apart, and the
\* street D-A-C-B.
FairMasks == {{1, 2, 4}, {1, 2, 3}}
SpecEngineFair ==
    EngineInitOn(3, FairMasks) /\ [][EngineNext]_vars /\ WF_vars(Advance)

\* ------------------------------------------------------- driving the page
\* The graphs of the page: the three roads A-B 10, A-C 10, B-C 5 with D
\* apart, and the same with a second, free road between A and B.
TripMasks == {{1, 2, 3}, {1, 2, 3, 9}}

\* What a select offers: every node, and for a stop the empty choice too.
StartChoices == NodeIds(2) \cup {NoNode}
StopChoices == NodeIds(2) \cup {NoNode}

WaypointLists == UNION {[1..n -> StopChoices] : n \in 0..MaxStops}

\* The page before the first run, with one of the given graphs, start
\* choices, stop lists and algorithms in its widgets.
TripInitOn(masks, starts, lists, algos) ==
    \E mask \in masks :
      \E startId \in starts :
        \E waypoints \in lists :
          \E algo \in algos :
            /\ graph = BuildGraph(2, mask)
            /\ gen = NewGen("bfs", NoNode, NoNode)
            /\ events = << >>
            /\ threw = FALSE
            /\ extraCalls = 0
            /\ app = NewApp(startId, waypoints, algo)
            /\ renderer = NewRenderer(startId, waypoints)
            /\ trips = << >>
            /\ enginesMade = 0
            /\ runCalls = 0
            /\ edits = 0
            /\ lastCall = NoCall
            /\ NoHeap

\* The page after some edits of the selects and before the first run.
TripInit == TripInitOn(TripMasks, StartChoices, WaypointLists, AlgoKeys)

Page == [app |-> app, renderer |-> renderer, trips |-> trips,
         enginesMade |-> enginesMade]

Becomes(S) ==
    /\ app' = S.app
    /\ renderer' = S.renderer
    /\ trips' = S.trips
    /\ enginesMade' = S.enginesMade

Edited(S) ==
    /\ edits < MaxEdits
    /\ edits' = edits + 1
    /\ \E S1 \in {S} : Becomes(S1)
    /\ UNCHANGED <<heapVars, graph, lastCall, engineVars, runCalls>>

\* A click on the run button, which a disabled button does not deliver.
RunClick ==
    /\ ~app.runDisabled
    /\ runCalls < MaxRunCalls
    /\ runCalls' = runCalls + 1
    /\ \E S \in {Run(graph, Page)} : Becomes(S)
    /\ UNCHANGED <<heapVars, graph, lastCall, engineVars, edits>>

\* Enter or Space handled without the test of isRunning.
RunKeyUnguarded ==
    /\ runCalls < MaxRunCalls
    /\ runCalls' = runCalls + 1
    /\ \E S \in {Run(graph, Page)} : Becomes(S)
    /\ UNCHANGED <<heapVars, graph, lastCall, engineVars, edits>>

\* Enter or Space outside a select.
RunKey ==
    /\ ~app.isRunning
    /\ runCalls < MaxRunCalls
    /\ runCalls' = runCalls + 1
    /\ \E S \in {Run(graph, Page)} : Becomes(S)
    /\ UNCHANGED <<heapVars, graph, lastCall, engineVars, edits>>

\* The reset button, Escape or r.
ResetRequest ==
    /\ \E S \in {Reset(Page)} : Becomes(S)
    /\ UNCHANGED <<heapVars, graph, lastCall, engineVars, runCalls, edits>>

\* Mutant of StepTimerFires: the engine reverses in place the list that
\* getNeighbors handed it for the node it expands (neighbors.reverse()).
StepTimerFiresReversing ==
    \E k \in 1..Len(trips) :
        /\ StepTimer(k) \in app.animationTimers
        /\ \E S \in {StepFn(graph,
                           [Page EXCEPT !.app.animationTimers = @ \ {StepTimer(k)}], k)} :
               Becomes(S)
        /\ graph' = IF trips[k].generator.current \in DOMAIN graph.edges
                    THEN [graph EXCEPT !.edges[trips[k].generator.current] =
                              [i \in 1..Len(@) |-> @[Len(@) + 1 - i]]]
                    ELSE graph
        /\ UNCHANGED <<heapVars, lastCall, engineVars, runCalls, edits>>

\* The timer of a visit fires: step runs again, and with it whatever of
\* _run follows the promise it resolves.
StepTimerFires ==
    \E k \in 1..Len(trips) :
        /\ StepTimer(k) \in app.animationTimers
        /\ \E S \in {StepFn(graph,
                           [Page EXCEPT !.app.animationTimers = @ \ {StepTimer(k)}], k)} :
               Becomes(S)
        /\ UNCHANGED <<heapVars, graph, lastCall, engineVars, runCalls, edits>>

\* The timer of the pause between two legs fires: the loop goes on to the
\* next leg.
PauseTimerFires ==
    \E k \in 1..Len(trips) :
        /\ PauseTimer(k) \in app.animationTimers
        /\ \E S \in {LegHead(graph,
                            [Page EXCEPT !.app.animationTimers = @ \ {PauseTimer(k)},
                                         !.trips[k].leg = @ + 1], k)} :
               Becomes(S)
        /\ UNCHANGED <<heapVars, graph, lastCall, engineVars, runCalls, edits>>

\* A select reports a change when another option is chosen.
SetStart ==
    \E v \in StartChoices :
        /\ v # app.startSelect
        /\ Edited(StartChanged(Page, v))

AddWaypoint ==
    /\ Len(app.waypoints) < MaxStops
    /\ Edited(AddWaypointTo(Page))

SetWaypoint ==
    \E i \in 1..Len(app.waypoints) :
        \E v \in StopChoices :
            /\ v # app.waypoints[i]
            /\ Edited(WaypointChanged(Page, i, v))

RemoveWaypoint == \E i \in 1..Len(app.waypoints) : Edited(RemoveWaypointAt(Page, i))

\* The up button of entry i and the down button of entry i - 1.
SwapWaypoints ==
    \E i \in 2..Len(app.waypoints) : Edited(SwapWaypointsAt(Page, i, i - 1))

DropWaypoint ==
    \E fromIndex \in 1..Len(app.waypoints) :
        \E toIndex \in 1..Len(app.waypoints) :
            Edited(DropWaypointAt(Page, fromIndex, toIndex))

NodeClick ==
    \E nodeId \in NodeIds(2) :
        /\ Len(NodeClicked(Page, nodeId).app.waypoints) <= MaxStops
        /\ Edited(NodeClicked(Page, nodeId))

SelectAlgorithm ==
    \E algo \in AlgoKeys :
        /\ algo # app.algorithmSelect
        /\ Edited([Page EXCEPT !.app.algorithmSelect = algo])

TripNext ==
    \/ RunClick
    \/ RunKey
    \/ ResetRequest
    \/ StepTimerFires
    \/ PauseTimerFires
    \/ SetStart
    \/ AddWaypoint
    \/ SetWaypoint
    \/ RemoveWaypoint
    \/ SwapWaypoints
    \/ DropWaypoint
    \/ NodeClick
    \/ SelectAlgorithm

SpecTrip == TripInit /\ [][TripNext]_vars

\* The same page with timers that fire: a timeout set by setTimeout and not
\* cleared runs its callback.  It starts from the start A with the stops B,
\* or B then C, on the graph without the free road, and breadth-first search
\* selected.
FairLists == {<<"B">>, <<"B", "C">>}
SpecTripFair ==
    /\ TripInitOn({{1, 2, 3}}, {"A"}, FairLists, {"bfs"})
    /\ [][TripNext]_vars
    /\ WF_vars(StepTimerFires)
    /\ WF_vars(PauseTimerFires)

\* ------------------------------------------------------ building a graph
\* The ids, positions and weight arguments the calls are made with: 1.5 and
\* -3 among the weights, two nodes 7.07 apart among the positions.
GraphIds == {"A", "B", "C"}
Points == {<<0, 0>>, <<5, 5>>}
WeightArgs == {NoWeight, W(3), W(-6)}

GraphInit ==
    /\ graph = EmptyGraph
    /\ lastCall = NoCall
    /\ NoHeap
    /\ gen = NewGen("bfs", NoNode, NoNode)
    /\ events = << >>
    /\ threw = FALSE
    /\ extraCalls = 0
    /\ NoTrip

\* graph.addNode(id, x, y, ..).
AddNodeCall ==
    \E id \in GraphIds :
      \E p \in Points :
        /\ lastCall.n < MaxCalls
        /\ graph' = AddNode(graph, id, p[1], p[2])
        /\ lastCall' = [n |-> lastCall.n + 1, op |-> "addNode", fromId |-> id,
                        toId |-> NoNode, weight |-> NoWeight, threw |-> FALSE]
        /\ UNCHANGED <<heapVars, engineVars, tripVars>>

\* graph.addEdge(fromId, toId) and graph.addEdge(fromId, toId, weight).
AddEdgeCall ==
    \E fromId \in GraphIds :
      \E toId \in GraphIds :
        \E weight \in WeightArgs :
          /\ lastCall.n < MaxCalls
          /\ \E r \in {AddEdge(graph, fromId, toId, weight)} :
                /\ graph' = r.graph
                /\ lastCall' = [n |-> lastCall.n + 1, op |-> "addEdge",
                                fromId |-> fromId, toId |-> toId,
                                weight |-> weight, threw |-> ~r.ok]
          /\ UNCHANGED <<heapVars, engineVars, tripVars>>

GraphNext == AddNodeCall \/ AddEdgeCall

SpecGraph == GraphInit /\ [][GraphNext]_vars

\* ------------------------------------------------- a MinHeap used on its own
\* Any sequence of push and pop calls on one MinHeap that holds at most
\* MaxHeapSize items.  The items pushed have priorities 1, 1.41.., 2, 2.41..
\* and 3; two of them have the same priority and different nodes.
HeapItems ==
    {Entry(Num(1), "A"), Entry(Num(1), "B"), Entry([g |-> 0, h2 |-> 2], "A"),
     Entry(Num(2), "A"), Entry([g |-> 1, h2 |-> 2], "A"), Entry(Num(3), "A")}

HeapInit ==
    /\ NoHeap
    /\ graph = EmptyGraph
    /\ lastCall = NoCall
    /\ gen = NewGen("bfs", NoNode, NoNode)
    /\ events = << >>
    /\ threw = FALSE
    /\ extraCalls = 0
    /\ NoTrip

\* heap.push(item).
PushCall ==
    \E item \in HeapItems :
        /\ Len(heap) < MaxHeapSize
        /\ heap' = HeapPush(heap, item)
        /\ present' = present (+) SetToBag({item})
        /\ lastPop' = NoPop
        /\ UNCHANGED <<graph, lastCall, engineVars, tripVars>>

\* heap.pop() on a heap that has items.
PopCall ==
    /\ Len(heap) > 0
    /\ \E popped \in {HeapPop(heap)} :
           /\ heap' = popped.data
           /\ present' = present (-) SetToBag({popped.top})
           /\ lastPop' = popped.top
    /\ UNCHANGED <<graph, lastCall, engineVars, tripVars>>

\* heap.pop() on an empty heap: data[0] is undefined and data.pop() takes
\* nothing.
PopEmptyCall ==
    /\ Len(heap) = 0
    /\ lastPop' = Undefined
    /\ UNCHANGED <<heap, present, graph, lastCall, engineVars, tripVars>>

HeapNext == PushCall \/ PopCall \/ PopEmptyCall

SpecHeap == HeapInit /\ [][HeapNext]_vars

\* ------------------------------------------------ reference graph measures
\* Least total weight and least number of edges of a walk between two nodes,
\* computed by rounds of relaxation over every adjacency entry, independently
\* of the engines.
MinOf(S) == CHOOSE x \in S : \A y \in S : x <= y

RelaxAll(G, d, unit) ==
    [v \in DOMAIN d |->
        MinOf({d[v]} \cup
              UNION {{d[u] + (IF unit THEN 1 ELSE G.edges[u][i].weight) :
                        i \in {j \in 1..Len(G.edges[u]) : G.edges[u][j].node = v}} :
                     u \in {x \in DOMAIN G.edges : d[x] < Infinity}})]

\* k rounds; the comparison with d makes TLC tabulate each round's function
\* before the next one reads it, and stops at the fixed point.
RECURSIVE RelaxRounds(_, _, _, _)
RelaxRounds(G, d, unit, k) ==
    LET next == RelaxAll(G, d, unit)
    IN  IF k = 0 \/ next = d THEN d ELSE RelaxRounds(G, next, unit, k - 1)

DistancesFrom(G, s, unit) ==
    RelaxRounds(G, [v \in DOMAIN G.nodes |-> IF v = s THEN 0 ELSE Infinity],
                unit, Cardinality(DOMAIN G.nodes))

ShortestWeight(G, s, e) == DistancesFrom(G, s, FALSE)[e]
FewestEdges(G, s, e) == DistancesFrom(G, s, TRUE)[e]
Reachable(G, s, e) == HasNode(G, s) /\ HasNode(G, e) /\ FewestEdges(G, s, e) < Infinity

\* The weights of the entries for v in u's list.
WeightsBetween(G, u, v) ==
    {G.edges[u][i].weight : i \in {j \in 1..Len(GetNeighbors(G, u)) : G.edges[u][j].node = v}}

\* path is a walk of the graph: consecutive nodes are joined by an edge.
IsWalk(G, path) ==
    \A i \in 1..(Len(path) - 1) : WeightsBetween(G, path[i], path[i + 1]) # {}

\* The least weight of a walk along path (lightest parallel edge each time).
RECURSIVE WalkWeight(_, _, _)
WalkWeight(G, path, i) ==
    IF i >= Len(path) THEN 0
    ELSE MinOf(WeightsBetween(G, path[i], path[i + 1])) + WalkWeight(G, path, i + 1)

\* The generator has yielded its done object, which is then the last event.
HasDone == Len(events) > 0 /\ events[Len(events)].type = "done"
DoneEvent == events[Len(events)]
\* Both ends of the search are nodes of the graph.
KnownEnds == HasNode(graph, gen.startId) /\ HasNode(graph, gen.endId)

\* ------------------------------------------------------------------ claims
\* C1: on a graph with non-negative weights and an end reachable from the
\* start, Dijkstra's done object reports as totalDistance the least total
\* weight of any walk from start to end, and its path is a walk from start to
\* end of exactly that weight; so the walk BFS or DFS reports for the same
\* pair is never lighter.
C1_DijkstraShortest ==
    (HasDone /\ Reachable(graph, gen.startId, gen.endId)) =>
        LET best == ShortestWeight(graph, gen.startId, gen.endId)
            path == DoneEvent.path
        IN  /\ Len(path) > 0
            /\ IsWalk(graph, path)
            /\ gen.algo = "dijkstra" =>
                  /\ DoneEvent.totalDistance = best
                  /\ WalkWeight(graph, path, 1) = best
            /\ gen.algo \in {"bfs", "dfs"} => WalkWeight(graph, path, 1) >= best

\* Dijkstra has answered A -> E on the diagonal street by the four-edge route
\* of weight 6 although the direct edge of weight 7 is present.
C1_Witness ==
    /\ HasDone
    /\ gen.algo = "dijkstra"
    /\ DoneEvent.path = <<"A", "B", "C", "D", "E">>
    /\ DoneEvent.totalDistance = 6
    /\ 7 \in WeightsBetween(graph, "A", "E")

\* C2: on every graph built by addNode/addEdge (default or explicit
\* non-negative weights) and every reachable pair, A*'s totalDistance is the
\* one Dijkstra reports, which by C1 is the least total weight.
C2_AStarEqualsDijkstra ==
    (HasDone /\ gen.algo = "astar" /\ Reachable(graph, gen.startId, gen.endId)) =>
        DoneEvent.totalDistance = ShortestWeight(graph, gen.startId, gen.endId)

\* C3: the path of BFS's done object has the fewest edges of any walk from
\* start to end.
C3_BfsFewestEdges ==
    (HasDone /\ gen.algo = "bfs" /\ Reachable(graph, gen.startId, gen.endId)) =>
        /\ Len(DoneEvent.path) > 0
        /\ IsWalk(graph, DoneEvent.path)
        /\ Len(DoneEvent.path) - 1 = FewestEdges(graph, gen.startId, gen.endId)

\* BFS has answered with a two-edge path on a graph where the two ends are
\* also joined by a longer route.
C3_Witness ==
    /\ HasDone
    /\ gen.algo = "bfs"
    /\ Len(DoneEvent.path) = 3
    /\ \E mask \in Masks(1) : {1, 2, 3, 4, 5} \subseteq mask /\ graph = BuildGraph(1, mask)

\* C4: for each engine, a non-empty path of the done object starts at the
\* engine's startId and ends at its endId.
C4_PathEnds ==
    (HasDone /\ Len(DoneEvent.path) > 0) =>
        /\ DoneEvent.path[1] = gen.startId
        /\ DoneEvent.path[Len(DoneEvent.path)] = gen.endId

\* DFS has reported a path of at least three nodes.
C4_Witness ==
    /\ HasDone
    /\ gen.algo = "dfs"
    /\ Len(DoneEvent.path) >= 3
    /\ gen.startId # gen.endId

\* C5: for each engine, when startId and endId are nodes of the graph and
\* endId is not reachable from startId, the run ends with a done object whose
\* path is empty, with totalDistance Infinity for Dijkstra and A*.
C5_Unreachable ==
    (KnownEnds /\ ~Reachable(graph, gen.startId, gen.endId)
        /\ gen.pc \in {"found", "exhausted", "returned"}) =>
        /\ HasDone
        /\ DoneEvent.path = << >>
        /\ Weighted(gen.algo) =>
              /\ "totalDistance" \in DoneEvent.keys
              /\ DoneEvent.totalDistance = Infinity

\* A* has exhausted its heap after visiting more than the start without
\* reaching an end that is a node of the graph.
C5_Witness ==
    /\ KnownEnds
    /\ ~Reachable(graph, gen.startId, gen.endId)
    /\ gen.algo = "astar"
    /\ HasDone
    /\ Len(DoneEvent.visited) >= 2

\* C6: an engine run over nodes of the graph yields visit objects, then
\* exactly one done object, and nothing more however often next() is called
\* afterwards.
C6_VisitsThenDone ==
    KnownEnds =>
        /\ \A i \in 1..Len(events) :
              IF i < Len(events) THEN events[i].type = "visit"
              ELSE events[i].type \in {"visit", "done"}
        /\ gen.pc = "visit" <=> (Len(events) > 0 /\ ~HasDone)
        /\ gen.pc \in {"found", "exhausted"} => HasDone
        /\ gen.pc = "returned" => HasDone /\ ~threw

\* A finished run, advanced again as often as the model allows, with visits
\* before its done object.
C6_Witness ==
    /\ KnownEnds
    /\ gen.pc = "returned"
    /\ extraCalls = MaxExtraCalls
    /\ HasDone
    /\ Len(events) >= 3

\* C7: with a startId or endId that is not a node of the graph the search
\* fails before any step: no visit and no done object is ever produced.
C7_UnknownNodeFailsFast ==
    ~KnownEnds => (events = << >> /\ (gen.pc # "ready" => threw))

\* The route a call of _run would read off the page, and the steps that are
\* such a call.
RequestedRoute == <<app.startSelect>> \o FilterChosen(app.waypoints)
RunRequested == runCalls' = runCalls + 1
Rejected ==
    /\ enginesMade' = enginesMade
    /\ trips' = trips
    /\ renderer' = renderer
    /\ ~app'.isRunning
    /\ ~app'.runDisabled
    /\ app'.animationTimers = app.animationTimers

\* A route with fewer than two stops (no start, or no destination) or with
\* two consecutive equal stops.
InvalidRoute ==
    \/ app.startSelect = NoNode
    \/ Len(RequestedRoute) < 2
    \/ \E i \in 1..(Len(RequestedRoute) - 1) : RequestedRoute[i] = RequestedRoute[i + 1]

\* C9: a trip requested with no start, with no destination or with two
\* consecutive equal stops is rejected before any engine is constructed: the
\* call makes no generator, starts no trip, processes no visit, shows a
\* warning and leaves the run flag false.
C9_InvalidRouteRejected ==
    [][(RunRequested /\ InvalidRoute) =>
          (Rejected /\ app'.status.kind \in {"warnStart", "warnStops", "warnDuplicate"})]_vars

\* A request with two consecutive equal stops was turned down after an
\* earlier trip had run to its end.
C9_Witness ==
    /\ app.status.kind = "warnDuplicate"
    /\ runCalls = 2
    /\ Len(trips) = 1
    /\ trips[1].outcome = "complete"
    /\ enginesMade = Len(trips[1].route) - 1
    /\ ~app.isRunning

RouteABA == <<"A", "B", "A">>
RouteAAB == <<"A", "A", "B">>

\* C10 as stated: a request for the route [A, B, A] is rejected before any
\* engine is constructed.
C10_ABARejected ==
    [][(RunRequested /\ RequestedRoute = RouteABA) => Rejected]_vars

\* C10: a request for the route [A, B, A], whose equal stops are not
\* consecutive, passes the checks: the run flag becomes true and the engine
\* of the leg A to B is constructed; a request for [A, A, B] is rejected
\* before any engine is constructed.
C10_OnlyConsecutiveRejected ==
    [][/\ (RunRequested /\ RequestedRoute = RouteABA) =>
            /\ app'.isRunning
            /\ enginesMade' = enginesMade + 1
            /\ trips' = Append(trips, trips'[Len(trips')])
            /\ trips'[Len(trips')].route = RouteABA
            /\ trips'[Len(trips')].generator.startId = "A"
            /\ trips'[Len(trips')].generator.endId = "B"
       /\ (RunRequested /\ RequestedRoute = RouteAAB) =>
            (Rejected /\ app'.status.kind = "warnDuplicate")]_vars

\* The trip [A, B, A] has run both of its legs to the end.
C10_Witness ==
    \E k \in 1..Len(trips) :
        /\ trips[k].route = RouteABA
        /\ trips[k].outcome = "complete"
        /\ Len(trips[k].allSegments) = 2
        /\ enginesMade >= 2

\* ------------------------------------------------------ claims on the trip
\* The trips of the page, and the timers one of them has pending.
TripIds == 1..Len(trips)
TimersOf(k) == {timer \in app.animationTimers : timer.trip = k}

\* In this step the leg of trip k has resolved with a done object whose path
\* is empty.
EndsWithoutPath(k) ==
    /\ k \in 1..Len(trips')
    /\ trips'[k].legResult.type = "done"
    /\ trips'[k].legResult.path = << >>
    /\ (k \in TripIds => trips[k].legResult # trips'[k].legResult)

\* C11: when the engine of a leg ends with a done object whose path is
\* empty, the trip ends there with the no-path outcome that names the two
\* ends of that leg: no engine is constructed in that step or later by the
\* trip, no timer is left pending, the run flag is false again, and the trip
\* never reports a complete trip afterwards.
C11_NoPathAborts ==
    [][\A k \in 1..Len(trips') :
          /\ EndsWithoutPath(k) =>
                /\ trips'[k].outcome = "noPath"
                /\ trips'[k].awaiting = "none"
                /\ app'.status = Status("noPath", trips'[k].route[trips'[k].leg + 1],
                                        trips'[k].route[trips'[k].leg + 2],
                                        trips'[k].leg + 1, 0)
                /\ trips'[k].generator.startId = trips'[k].route[trips'[k].leg + 1]
                /\ trips'[k].generator.endId = trips'[k].route[trips'[k].leg + 2]
                /\ enginesMade' = enginesMade
                /\ app'.animationTimers = {}
                /\ ~app'.isRunning
                /\ ~app'.runDisabled
          /\ (k \in TripIds /\ trips[k].outcome = "noPath") => trips'[k] = trips[k]]_vars

\* A trip of two legs was given up on its first leg, and the page has been
\* used again since.
C11_Witness ==
    \E k \in TripIds :
        /\ trips[k].outcome = "noPath"
        /\ Len(trips[k].route) = 3
        /\ trips[k].leg = 0
        /\ trips[k].totalVisited >= 2
        /\ Len(trips) > k

\* The done object a generator yields when it is advanced until it does;
\* fuel bounds the number of next() calls.
RECURSIVE RunToDone(_, _, _)
RunToDone(G, g, fuel) ==
    Only({IF step.result.done \/ fuel = 0 THEN NoValue
          ELSE IF step.result.value.type = "done" THEN step.result.value
          ELSE RunToDone(G, step.gen, fuel - 1) :
          step \in {GenNext(G, g)}})

\* An engine made for (fromId, toId) alone, run to its end.
EngineResult(G, algo, fromId, toId) ==
    RunToDone(G, NewGen(algo, fromId, toId), 4 * Cardinality(DOMAIN G.nodes) + 4)

\* The sum over the legs of a route of the distance of each leg searched on
\* its own.
RECURSIVE SumOfLegs(_, _, _, _)
SumOfLegs(G, algo, route, i) ==
    IF i >= Len(route) THEN 0
    ELSE LegDist(G, EngineResult(G, algo, route[i], route[i + 1]))
           + SumOfLegs(G, algo, route, i + 1)

\* The trip that wrote the status line when it reads "Trip complete".
LastTrip == trips[Len(trips)]
AllLegsFound(t) == t.outcome = "complete" /\ Len(t.allSegments) = Len(t.route) - 1

RouteACB == <<"A", "C", "B">>

\* C12: when a trip has found a path on every leg and was not cancelled,
\* the total distance it reports is the sum of the distances of its legs and
\* the number of legs it reports is the length of the route minus one; on
\* the graph A-B 10, A-C 10, B-C 5 the route [A, C, B] with Dijkstra reports
\* distance 15 and 2 legs.
C12_TripTotals ==
    /\ \A k \in TripIds :
          AllLegsFound(trips[k]) =>
              trips[k].totalDistance =
                  SumOfLegs(graph, trips[k].algo, trips[k].route, 1)
    /\ (trips # << >> /\ app.status.kind = "complete") =>
          /\ LastTrip.outcome = "complete"
          /\ AllLegsFound(LastTrip) =>
                /\ app.status.distance = LastTrip.totalDistance
                /\ app.status.n = Len(LastTrip.route) - 1
                /\ app.stats.legs = Len(LastTrip.route) - 1
                /\ (graph = BuildGraph(2, {1, 2, 3}) /\ LastTrip.route = RouteACB
                      /\ LastTrip.algo = "dijkstra") =>
                        (app.status.distance = 15 /\ app.status.n = 2)

\* The trip [A, C, B] with Dijkstra on the three roads has reported.
C12_Witness ==
    /\ graph = BuildGraph(2, {1, 2, 3})
    /\ trips # << >>
    /\ LastTrip.route = RouteACB
    /\ LastTrip.algo = "dijkstra"
    /\ AllLegsFound(LastTrip)
    /\ app.status.kind = "complete"
    /\ app.status.distance = 15

\* The sums of weights a walk along path can have, one entry of the list
\* being taken for each step.
RECURSIVE PathWeights(_, _, _)
PathWeights(G, path, i) ==
    IF i >= Len(path) THEN {0}
    ELSE {w + rest : w \in WeightsBetween(G, path[i], path[i + 1]),
                     rest \in PathWeights(G, path, i + 1)}

\* In this step a leg of trip k has resolved with a path that is not empty.
LegAdded(k) ==
    /\ k \in TripIds
    /\ k \in 1..Len(trips')
    /\ Len(trips'[k].allSegments) = Len(trips[k].allSegments) + 1

\* C13: when a leg ends with a path that is not empty, the distance added
\* to the total of the trip is the totalDistance of the done object for
\* Dijkstra and A*, and a sum of edge weights along the returned path for
\* BFS and DFS.
C13_LegDistanceBySource ==
    [][\A k \in TripIds :
          LegAdded(k) =>
              LET added == trips'[k].totalDistance - trips[k].totalDistance
                  legResult == trips'[k].legResult
              IN  IF Weighted(trips[k].algo)
                  THEN added = legResult.totalDistance
                  ELSE added \in PathWeights(graph, legResult.path, 1)]_vars

\* Trip k is suspended and none of its timers is pending: nothing can wake it.
Cancelled(k) == trips[k].awaiting \in {"leg", "pause"} /\ TimersOf(k) = {}

\* C14: a reset takes every pending timer from a running trip, whether it
\* waits for its next step or for the pause between two legs, and a trip so
\* cancelled keeps the outcome "none" for ever: it reports neither a
\* complete trip nor a missing path nor anything else.
C14_CancelledNeverReports ==
    [][/\ ResetRequest =>
            \A k \in TripIds : trips[k].awaiting # "none" => Cancelled(k)'
       /\ \A k \in TripIds :
            Cancelled(k) =>
                /\ trips'[k].outcome = "none"
                /\ trips'[k].awaiting = trips[k].awaiting
                /\ Cancelled(k)']_vars

\* A trip was reset during the pause between its two legs, and a later
\* trip has run to its end since.
C14_Witness ==
    /\ Len(trips) = 2
    /\ Cancelled(1)
    /\ trips[1].awaiting = "pause"
    /\ Len(trips[1].allSegments) = 1
    /\ trips[2].outcome = "complete"
    /\ app.status.kind = "complete"

\* C15: a reset clears the visited set, the path segments and the
\* statistics shown, and after it the generator of the cancelled trip is
\* never advanced, the trip constructs no engine for a later leg, and its
\* frame stays as it is, so that none of its steps writes to the display.
C15_CancelledNeverActs ==
    [][/\ ResetRequest =>
            /\ renderer'.visited = {}
            /\ renderer'.segments = << >>
            /\ renderer'.current = Null
            /\ app'.stats = ClearedStats
            /\ app'.animationTimers = {}
            /\ enginesMade' = enginesMade
            /\ trips' = trips
       /\ \A k \in TripIds :
            Cancelled(k) =>
                /\ trips'[k] = trips[k]
                /\ TimersOf(k)' = {}]_vars

\* A trip was reset in the middle of a leg, and a later trip is running and
\* has visited nodes since.
C15_Witness ==
    /\ Len(trips) = 2
    /\ Cancelled(1)
    /\ trips[1].awaiting = "leg"
    /\ trips[1].generator.pc = "visit"
    /\ trips[1].totalVisited >= 2
    /\ trips[2].awaiting = "leg"
    /\ trips[2].totalVisited >= 2
    /\ renderer.visited # {}

\* C16: under every interleaving of run requests, resets, edits and timer
\* firings at most one timer is pending and it belongs to the latest trip; a
\* run request is only taken while the run flag is false; once a later trip
\* exists the frame of an earlier one never changes; and within a trip the
\* engine of the next leg is only constructed after the generator of the
\* leg before has yielded its done object.  The visits of two trips or of
\* two legs are therefore never interleaved.
C16_OneEngineAtATime ==
    [][/\ Cardinality(app'.animationTimers) <= 1
       /\ \A timer \in app'.animationTimers : timer.trip = Len(trips')
       /\ RunRequested => ~app.isRunning
       /\ \A k \in TripIds :
            /\ k < Len(trips') => trips'[k] = trips[k]
            /\ (k = Len(trips') /\ enginesMade' # enginesMade) =>
                    /\ trips[k].legResult.type = "done"
                    /\ trips[k].generator.pc \in {"found", "exhausted"}]_vars

\* Behind a trip that ran to its end a second trip is on its second leg,
\* with a step pending.
C16_Witness ==
    /\ Len(trips) = 2
    /\ trips[1].outcome = "complete"
    /\ trips[2].leg = 1
    /\ trips[2].awaiting = "leg"
    /\ app.animationTimers = {StepTimer(2)}
    /\ enginesMade >= 3

\* ----------------------------------------------------- claims on the graph
\* This step is a call of addEdge.
AddEdgeCalled == lastCall'.n = lastCall.n + 1 /\ lastCall'.op = "addEdge"

\* C17: a call of addEdge with a fromId or a toId that is not a node of the
\* graph throws, and leaves the node map and every adjacency list as they
\* were.
C17_AddEdgeNodeNotFound ==
    [][(AddEdgeCalled /\ (~HasNode(graph, lastCall'.fromId)
                            \/ ~HasNode(graph, lastCall'.toId))) =>
          (lastCall'.threw /\ graph' = graph)]_vars

\* addEdge has thrown for a toId that is no node, from a node that has edges.
C17_Witness ==
    /\ lastCall.op = "addEdge"
    /\ lastCall.threw
    /\ HasNode(graph, lastCall.fromId)
    /\ ~HasNode(graph, lastCall.toId)
    /\ graph.edges[lastCall.fromId] # << >>

\* C18: after any sequence of addNode and addEdge calls every weight in
\* every adjacency list is a non-negative integer.
C18_WeightsNonNegative ==
    \A u \in DOMAIN graph.edges :
        \A i \in 1..Len(graph.edges[u]) : graph.edges[u][i].weight \in Nat

\* The weights of the entries for v in the list of u, in the order of the
\* list.
RECURSIVE WeightsIn(_, _)
WeightsIn(list, v) ==
    IF list = << >> THEN << >>
    ELSE IF Head(list).node = v THEN <<Head(list).weight>> \o WeightsIn(Tail(list), v)
    ELSE WeightsIn(Tail(list), v)

\* C19: after any sequence of addNode and addEdge calls the entries for v
\* in the list of u carry the same weights, in the same order, as the
\* entries for u in the list of v, and every entry names a node.
C19_Symmetric ==
    \A u \in DOMAIN graph.edges :
        /\ \A i \in 1..Len(graph.edges[u]) : HasNode(graph, graph.edges[u][i].node)
        /\ \A v \in DOMAIN graph.edges :
              WeightsIn(graph.edges[u], v) = WeightsIn(graph.edges[v], u)

\* Two roads of different weights join two different nodes, and one of them
\* has a loop as well.
C19_Witness ==
    \E u, v \in DOMAIN graph.edges :
        /\ u # v
        /\ Len(WeightsIn(graph.edges[u], v)) = 2
        /\ WeightsIn(graph.edges[u], v)[1] # WeightsIn(graph.edges[u], v)[2]
        /\ WeightsIn(graph.edges[u], u) # << >>

\* Every entry carries the default weight of its two ends as they lie now.
AllDefault(G) ==
    \A u \in DOMAIN G.edges :
        \A i \in 1..Len(G.edges[u]) :
            G.edges[u][i].weight =
                RoundSqrt(Dist2(G.nodes[u], G.nodes[G.edges[u][i].node]))

\* C20: on a graph whose edges all carry the default weight, heuristic(a, b)
\* is never greater than the least total weight of a path from a to b.
C20_HeuristicAdmissible ==
    AllDefault(graph) =>
        \A a, b \in DOMAIN graph.nodes :
            Reachable(graph, a, b) =>
                Heuristic2(graph, a, b)
                    <= ShortestWeight(graph, a, b) * ShortestWeight(graph, a, b)

\* The number of visit events an engine yields from frame g until its done
\* event.
RECURSIVE VisitsToDone(_, _, _)
VisitsToDone(G, g, fuel) ==
    Only({IF step.result.done \/ fuel = 0 THEN 0
          ELSE IF step.result.value.type = "done" THEN 0
          ELSE 1 + VisitsToDone(G, step.gen, fuel - 1) :
          step \in {GenNext(G, g)}})

\* The visit events of an engine made for (fromId, toId) alone.
VisitsOf(G, algo, fromId, toId) ==
    VisitsToDone(G, NewGen(algo, fromId, toId), 4 * Cardinality(DOMAIN G.nodes) + 4)

\* C21: when the end is reachable from the start, A* yields no more visit
\* events before its done event than Dijkstra does on the same graph and pair.
C21_AStarVisitsNoMore ==
    (gen.algo = "astar" /\ HasDone /\ Reachable(graph, gen.startId, gen.endId)) =>
        Len(events) - 1 <= VisitsOf(graph, "dijkstra", gen.startId, gen.endId)

\* C22: every visit event of every engine has the properties node, visited
\* and frontier, and has the property distances exactly when the engine is
\* Dijkstra or A*.
C22_VisitFields ==
    \A i \in 1..Len(events) :
        events[i].type = "visit" =>
            /\ {"node", "visited", "frontier"} \subseteq events[i].keys
            /\ ("distances" \in events[i].keys) <=> Weighted(gen.algo)

\* The nodes of the visit events among the first i events.
VisitedUpTo(i) == {events[j].node : j \in {k \in 1..i : events[k].type = "visit"}}

\* C23: the visited set of every visit and done event holds exactly the nodes
\* of the visit events yielded up to and including that event.
C23_VisitedIsExpanded ==
    \A i \in 1..Len(events) : Members(events[i].visited) = VisitedUpTo(i)

\* C24: in the parent map of a generator, the start node is the only key
\* whose value is null, and every other key has as value a node of an earlier
\* visit event; once the generator has run, the start node's entry is there.
C24_ParentEntries ==
    /\ (gen.pc # "ready" /\ ~threw) => MapHas(gen.parent, gen.startId)
    /\ \A n \in DOMAIN gen.parent :
          /\ gen.parent[n] = Null <=> n = gen.startId
          /\ n # gen.startId => gen.parent[n] \in VisitedUpTo(Len(events))

\* A search found a path of three nodes or more, and a node expanded on the
\* way has the start node among its neighbours.
C24_Witness ==
    /\ HasDone
    /\ Len(DoneEvent.path) >= 3
    /\ \E n \in VisitedUpTo(Len(events)) \ {gen.startId} :
          /\ n # gen.endId
          /\ \E i \in 1..Len(GetNeighbors(graph, n)) :
                GetNeighbors(graph, n)[i].node = gen.startId

\* C25: no step changes the graph: the node map and every adjacency list are
\* the same after every engine step, run request, reset, timer and edit of
\* the page as before it.
C25_GraphUnchanged == [][graph' = graph]_vars

\* A first trip was cancelled by a reset after its engine had been advanced,
\* and a second trip was aborted for want of a path.
C25_Witness ==
    /\ Len(trips) = 2
    /\ Cancelled(1)
    /\ trips[1].totalVisited >= 1
    /\ trips[2].outcome = "noPath"
    /\ trips[2].totalVisited >= 2

\* The bag of the items in the data array of the heap.
HeapBag ==
    [e \in {heap[i] : i \in 1..Len(heap)} |->
        Cardinality({i \in 1..Len(heap) : heap[i] = e})]

\* C26: after any sequence of push and pop calls on a MinHeap, no item has a
\* priority smaller than the item in its parent slot, a pop on a heap that had
\* items returned an item whose priority no item then present was smaller
\* than, and the items in the heap are those pushed and not yet popped.
C26_HeapOrderAndContents ==
    /\ \A i \in 2..Len(heap) :
          ~PrioLess(heap[i].priority, heap[i \div 2].priority)
    /\ lastPop \notin {NoPop, Undefined} =>
          \A i \in 1..Len(heap) : ~PrioLess(heap[i].priority, lastPop.priority)
    /\ HeapBag = present

\* After pushes that filled the heap and pops that followed, a pop returned
\* an item of priority 2 while items of priority 1 + sqrt(2) and 3 and a
\* second item of priority 2 were left.
C26_Witness ==
    /\ lastPop = Entry(Num(2), "A")
    /\ Len(heap) = 3
    /\ BagIn(Entry(Num(2), "A"), present)
    /\ BagIn(Entry([g |-> 1, h2 |-> 2], "A"), present)
    /\ BagIn(Entry(Num(3), "A"), present)

\* The visit events a suspended generator has yielded, read off its frame:
\* bfs has dequeued the nodes of visited that are not in its queue, and the
\* other three engines add a node to visited as they yield its visit.
EmittedBy(g) ==
    IF g.algo = "bfs" THEN Len(g.visited) - Len(g.queue) ELSE Len(g.visited)

\* The visit events of the legs 0 .. n - 1 of a route, each leg searched on
\* its own.
RECURSIVE VisitsOfLegs(_, _, _, _)
VisitsOfLegs(G, algo, route, n) ==
    IF n = 0 THEN 0
    ELSE Only({v + VisitsOfLegs(G, algo, route, n - 1) :
               v \in {VisitsOf(G, algo, route[n], route[n + 1])}})

\* The visit events the engines of trip t have yielded so far: those of the
\* legs before the one its generator belongs to, and those of that generator.
VisitsEmitted(t) ==
    LET genLeg == Min(t.leg, Len(t.route) - 2)
    IN  VisitsOfLegs(graph, t.algo, t.route, genLeg) + EmittedBy(t.generator)

\* C27: the visited count of a trip, and the count the statistics show while
\* they show one, is the number of visit events the engines of all the legs
\* of that trip have yielded so far, a node visited in two legs counted twice.
C27_VisitedCount ==
    /\ \A k \in TripIds : trips[k].totalVisited = VisitsEmitted(trips[k])
    /\ (trips # << >> /\ app.stats.visited # Dash) =>
          app.stats.visited = VisitsEmitted(LastTrip)

\* A trip of two legs is complete, and its count is greater than the number
\* of different nodes it saw.
C27_Witness ==
    /\ trips # << >>
    /\ LastTrip.outcome = "complete"
    /\ Len(LastTrip.route) = 3
    /\ app.stats.visited = LastTrip.totalVisited
    /\ LastTrip.totalVisited > Cardinality(LastTrip.allVisited)

\* The first entry of the adjacency list of n whose node is not in visited,
\* or NoNode when every entry's node is.
FirstUnvisited(G, n, visited) ==
    LET neighbors == GetNeighbors(G, n)
        open == {i \in 1..Len(neighbors) : ~SetHas(visited, neighbors[i].node)}
    IN  IF open = {} THEN NoNode
        ELSE neighbors[CHOOSE i \in open : \A j \in open : i <= j].node

\* C28: in dfs, after the visit of a node n other than endId that has a
\* neighbour not yet visited, the next visit event is that of the first such
\* neighbour in the adjacency order of n.
C28_DfsFirstNeighbor ==
    gen.algo = "dfs" =>
        \A i \in 1..(Len(events) - 1) :
            (/\ events[i].type = "visit"
             /\ events[i + 1].type = "visit"
             /\ events[i].node # gen.endId
             /\ FirstUnvisited(graph, events[i].node, events[i].visited) # NoNode)
            => events[i + 1].node =
                   FirstUnvisited(graph, events[i].node, events[i].visited)

\* dfs went from a node with two unvisited neighbours to the first of them,
\* and later came back for the second.
C28_Witness ==
    /\ gen.algo = "dfs"
    /\ \E i \in 1..(Len(events) - 2) :
          /\ events[i + 1].type = "visit"
          /\ events[i].node # gen.endId
          /\ events[i + 1].node =
                 FirstUnvisited(graph, events[i].node, events[i].visited)
          /\ \E j \in (i + 2)..Len(events) :
                /\ events[j].type = "visit"
                /\ events[j].node # events[i + 1].node
                /\ events[j].node =
                      FirstUnvisited(graph, events[i].node, events[i + 1].visited)

\* C29: no two visit events of a generator have the same node.
C29_VisitedOnce ==
    \A i, j \in 1..Len(events) :
        (i < j /\ events[i].type = "visit" /\ events[j].type = "visit")
        => events[i].node # events[j].node

\* Dijkstra emptied its heap, and a node it visited had been pushed twice:
\* an earlier visit event shows it a finite distance greater than its last.
C29_Witness ==
    /\ gen.algo = "dijkstra"
    /\ gen.pc = "exhausted"
    /\ \E n \in VisitedUpTo(Len(events)) :
          \E i \in 1..Len(events) :
              /\ events[i].type = "visit"
              /\ events[i].distances[n] < Infinity
              /\ gen.dist[n] < events[i].distances[n]

\* C30: the done event has a path with nodes exactly when the event before it
\* is the visit of endId; a visit of endId is the last event or is followed
\* by the done event as the last one, and that done event has the visited set
\* of the visit, so nothing was visited or expanded after the end node.
C30_DoneFollowsEnd ==
    /\ HasDone =>
          (DoneEvent.path # << >>
             <=> /\ Len(events) >= 2
                 /\ events[Len(events) - 1].type = "visit"
                 /\ events[Len(events) - 1].node = gen.endId)
    /\ \A i \in 1..Len(events) :
          (events[i].type = "visit" /\ events[i].node = gen.endId) =>
              \/ i = Len(events)
              \/ /\ i + 1 = Len(events)
                 /\ events[i + 1].type = "done"
                 /\ events[i + 1].visited = events[i].visited

\* An engine visited an end node that has a neighbour not yet visited and
\* yielded done with a path right after, three visits or more behind it.
C30_Witness ==
    /\ HasDone
    /\ Len(events) >= 4
    /\ Len(DoneEvent.path) >= 2
    /\ events[Len(events) - 1].node = gen.endId
    /\ FirstUnvisited(graph, gen.endId, DoneEvent.visited) # NoNode

\* The nodes a walk from s reaches, s included.
ReachableFrom(G, s) ==
    Only({{v \in DOMAIN d : d[v] < Infinity} : d \in {DistancesFrom(G, s, TRUE)}})

\* The visit events yielded so far are of different nodes reachable from the
\* start, so there are no more of them than such nodes.
VisitsWithinReach ==
    \E reach \in {ReachableFrom(graph, gen.startId)} :
        /\ VisitedUpTo(Len(events)) \subseteq reach
        /\ Cardinality({i \in 1..Len(events) : events[i].type = "visit"})
              <= Cardinality(reach)

\* C31: an engine run over nodes of the graph never yields more visit events
\* than there are nodes reachable from startId, and a generator that goes on
\* being advanced yields its done event.
C31_Terminates ==
    /\ [](KnownEnds => VisitsWithinReach)
    /\ (KnownEnds ~> HasDone)

\* A search on the cycle A-C-B visited its three nodes, all that can be
\* reached from its start, and ended without a path to the fourth.
C31_Witness ==
    /\ KnownEnds
    /\ HasDone
    /\ DoneEvent.path = << >>
    /\ Len(events) = 4
    /\ Cardinality(ReachableFrom(graph, gen.startId)) = 3
    /\ IsWalk(graph, <<events[1].node, events[2].node, events[3].node, events[1].node>>)

\* C32: a trip that is running leaves the running state: whatever the user
\* does meanwhile, as long as pending timers fire, isRunning is false again
\* at some later time, and with it the run button is enabled.
C32_TripLeavesRunning ==
    app.isRunning ~> (~app.isRunning /\ ~app.runDisabled)

\* C33: a non-empty path of a done object is a simple walk of the graph:
\* every two consecutive nodes are joined by an edge and no node occurs
\* twice; for Dijkstra and A*, totalDistance is the sum over the consecutive
\* pairs of the path of the smallest weight among the edges joining the pair.
C33_PathSimpleWalk ==
    (HasDone /\ DoneEvent.path # << >>) =>
        LET path == DoneEvent.path
        IN  /\ IsWalk(graph, path)
            /\ \A i, j \in 1..Len(path) : i # j => path[i] # path[j]
            /\ Weighted(gen.algo) =>
                  DoneEvent.totalDistance = WalkWeight(graph, path, 1)

\* Dijkstra or A* reported a path of three nodes or more, two consecutive
\* nodes of which are joined by parallel edges of different weights.
C33_Witness ==
    /\ HasDone
    /\ Weighted(gen.algo)
    /\ Len(DoneEvent.path) >= 3
    /\ \E i \in 1..(Len(DoneEvent.path) - 1) :
          Cardinality(WeightsBetween(graph, DoneEvent.path[i], DoneEvent.path[i + 1])) >= 2

\* The indices of the visit events.
VisitIndices == {i \in 1..Len(events) : events[i].type = "visit"}

\* C34: Dijkstra on a graph with non-negative weights visits the nodes in
\* non-decreasing order of their distance from the start, the distance a
\* visit event shows for its node is that distance, and it is the value of
\* the distance map for that node in every later event and in the end.
C34_DijkstraOrder ==
    (gen.algo = "dijkstra" /\ HasNode(graph, gen.startId)) =>
        \E d \in {DistancesFrom(graph, gen.startId, FALSE)} :
            \A i \in VisitIndices :
                /\ events[i].distances[events[i].node] = d[events[i].node]
                /\ gen.dist[events[i].node] = d[events[i].node]
                /\ \A j \in VisitIndices :
                      i < j =>
                          /\ d[events[i].node] <= d[events[j].node]
                          /\ events[j].distances[events[i].node] = d[events[i].node]

\* Dijkstra visited a node whose distance it had first recorded greater and
\* then improved, and went on to visit another node after it.
C34_Witness ==
    /\ gen.algo = "dijkstra"
    /\ \E i, k, j \in VisitIndices :
          /\ k < i
          /\ i < j
          /\ events[k].distances[events[i].node] < Infinity
          /\ events[i].distances[events[i].node] < events[k].distances[events[i].node]


\* C36: in Dijkstra, when the entry of a node that is not yet visited is
\* popped (the engine is suspended at that node's visit), the popped
\* priority is the distance the distance map holds for that node, so the
\* relaxation of its neighbours is the same from either of the two.
C36_PoppedIsCurrentBest ==
    (gen.algo = "dijkstra" /\ gen.pc = "visit") =>
        /\ gen.currentDist = gen.dist[gen.current]
        /\ \E neighbors \in {GetNeighbors(graph, gen.current)} :
              DijkstraRelax(gen, neighbors, 1)
                  = DijkstraRelax([gen EXCEPT !.currentDist = gen.dist[gen.current]],
                                  neighbors, 1)

\* Dijkstra popped the entry of an unvisited node whose distance had been
\* improved: an older entry of that node, of greater priority, is still in
\* the heap.
C36_Witness ==
    /\ gen.algo = "dijkstra"
    /\ gen.pc = "visit"
    /\ gen.currentDist = gen.dist[gen.current]
    /\ \E k \in 1..Len(gen.heap) :
          /\ gen.heap[k].node = gen.current
          /\ gen.heap[k].priority.g > gen.currentDist


\* C35: in every call of _run the legs run in route order: the generator of
\* the call is the one of leg number leg, from route[leg] to route[leg + 1],
\* and every leg before it has its segment; the segments are in leg order,
\* segment k is a non-empty walk of the graph from stop k to stop k + 1 of
\* the route with the colour of leg k, so the segments joined are one walk
\* from the start through the stops completed.
C35_SegmentsInLegOrder ==
    \A k \in TripIds :
        LET t == trips[k]
            segments == t.allSegments
            legs == Len(t.route) - 1
        IN  /\ t.leg <= Len(segments)
            /\ Len(segments) <= t.leg + 1
            /\ Len(segments) <= legs
            /\ (Len(segments) = t.leg + 1) => t.awaiting = "pause"
            /\ t.leg < legs =>
                  /\ t.generator.startId = t.route[t.leg + 1]
                  /\ t.generator.endId = t.route[t.leg + 2]
            /\ \A i \in 1..Len(segments) :
                  \E path \in {segments[i].path} :
                      /\ path # << >>
                      /\ path[1] = t.route[i]
                      /\ path[Len(path)] = t.route[i + 1]
                      /\ IsWalk(graph, path)
                      /\ segments[i].color = (i - 1) % NumLegColors
                      /\ i > 1 => segments[i - 1].path[Len(segments[i - 1].path)] = path[1]

\* A trip over three different stops has recorded the segments of both of
\* its legs, the second starting where the first ends.
C35_Witness ==
    \E k \in TripIds :
        /\ Len(trips[k].route) = 3
        /\ trips[k].route[1] # trips[k].route[3]
        /\ Len(trips[k].allSegments) = 2
        /\ Len(trips[k].allSegments[1].path) >= 2
        /\ trips[k].allSegments[2].path[1]
              = trips[k].allSegments[1].path[Len(trips[k].allSegments[1].path)]
        /\ trips[k].allSegments[2].path[1] = trips[k].route[2]

=============================================================================
